---------------------------- MODULE Spec2Model ----------------------------
(***************************************************************************)
(* Model of the VMC layered animation mixer and protocol bridge            *)
(* (backend/open_webui/utils/vmc.py): quaternion helpers, the blendshape   *)
(* sanitizer, the rest pose store, VMCSender and VMCPlayer with its render *)
(* thread.                                                                 *)
(*                                                                         *)
(* Numbers.  Blendshape values are fixed point with One = 1.0 (so 300 is   *)
(* 0.3); quaternion components are fixed point with QOne = 1.0 (so 5736 is *)
(* 0.5736).  Times are integer milliseconds.                               *)
(*                                                                         *)
(* Python dicts are functions with a finite DOMAIN; a frame is the record  *)
(* [t, blendshapes, bones]; a frame without a "bones" key is a frame whose *)
(* bones map is empty (every reader uses .get("bones", {})).               *)
(***************************************************************************)
EXTENDS Integers, Sequences, FiniteSets, TLC

VARIABLES
    now,                \* time.perf_counter(), in ms
    idle_frames,        \* VMCPlayer._idle_frames
    idle_active,        \* VMCPlayer._idle_active
    idle_name,          \* VMCPlayer._idle_name
    idle_gen,           \* identity of the list object held by _idle_frames
    active_actions,     \* VMCPlayer._active_actions
    dirty_blendshapes,  \* VMCPlayer._dirty_blendshapes
    dirty_bones,        \* VMCPlayer._dirty_bones
    running,            \* VMCPlayer._running
    thread,             \* VMCPlayer._thread (0 is None, else a thread id)
    rt,                 \* the render threads: position and locals of _render_loop
    calls,              \* the API calls in progress, one slot per caller
    ncalls,             \* number of API calls begun so far
    rest_pose,          \* module global _rest_pose
    rest_file,          \* contents of vmc_rest_pose.json (NoFile when absent)
    wire,               \* the latest send operation: who sent, and the OSC messages
    exp,                \* observer: the latest lone expiry of a played action
    stopped,            \* observer: the names live when stop() was called
    fn,                 \* latest application of a pure helper: [op, in, out]
    recorder,           \* the VMCRecorder object: its fields
    osc,                \* the recorder's surroundings: sockets bound, handler
                        \* threads and API calls in flight, what was returned
    host,               \* observer: the value last applied on the host for each
                        \* blendshape name sent since the render loop started
    presets             \* the preset directory: whether it exists, and its files

vars == << now, idle_frames, idle_active, idle_name, idle_gen, active_actions,
           dirty_blendshapes, dirty_bones, running, thread, rt, calls, ncalls,
           rest_pose, rest_file, wire, exp, stopped, fn, recorder, osc, host, presets >>

playerVars == << now, idle_frames, idle_active, idle_name, idle_gen,
                 active_actions, dirty_blendshapes, dirty_bones, running,
                 thread, rt, calls, ncalls, rest_pose, rest_file, wire,
                 exp, stopped >>

----------------------------------------------------------------------------
(* Units and small helpers                                                  *)

One == 1000
QOne == 10000

Max(a, b) == IF a >= b THEN a ELSE b
Min(a, b) == IF a <= b THEN a ELSE b
Abs(a) == IF a < 0 THEN -a ELSE a

\* dict.get(k, d)
Get(m, k, d) == IF k \in DOMAIN m THEN m[k] ELSE d

EmptyMap == [k \in {} |-> 0]

\* one-entry and two-entry dict literals
Map1(k, v) == [x \in {k} |-> v]
Map2(k1, v1, k2, v2) == [x \in {k1, k2} |-> IF x = k1 THEN v1 ELSE v2]

\* dict.update: entries of b override entries of a
Update(a, b) ==
    [k \in DOMAIN a \cup DOMAIN b |-> IF k \in DOMAIN b THEN b[k] ELSE a[k]]

\* division rounding to nearest, for fixed-point products and quotients
RoundDiv(a, b) ==
    IF a >= 0 THEN (2 * a + b) \div (2 * b) ELSE -((2 * (-a) + b) \div (2 * b))

RECURSIVE ISqrtIn(_, _, _)
ISqrtIn(n, lo, hi) ==
    IF lo >= hi THEN lo
    ELSE LET mid == (lo + hi + 1) \div 2
         IN  IF mid * mid <= n THEN ISqrtIn(n, mid, hi) ELSE ISqrtIn(n, lo, mid - 1)

\* floor of the square root of n (0 <= n < 2^31)
ISqrt(n) == ISqrtIn(n, 0, 46340)

----------------------------------------------------------------------------
(* Quaternion helpers, format <<x, y, z, w>>                                *)

_quat_identity == << 0, 0, 0, QOne >>

_quat_multiply(a, b) ==
    << RoundDiv(a[4] * b[1] + a[1] * b[4] + a[2] * b[3] - a[3] * b[2], QOne),
       RoundDiv(a[4] * b[2] - a[1] * b[3] + a[2] * b[4] + a[3] * b[1], QOne),
       RoundDiv(a[4] * b[3] + a[1] * b[2] - a[2] * b[1] + a[3] * b[4], QOne),
       RoundDiv(a[4] * b[4] - a[1] * b[1] - a[2] * b[2] - a[3] * b[3], QOne) >>

_quat_inverse(q) == << -q[1], -q[2], -q[3], q[4] >>

SumSq(q) == q[1] * q[1] + q[2] * q[2] + q[3] * q[3] + q[4] * q[4]

\* mag < 1e-10 is mag = 0 at this resolution
_quat_normalize(q) ==
    LET mag == ISqrt(SumSq(q))
    IN  IF mag = 0 THEN _quat_identity
        ELSE [i \in 1..4 |-> RoundDiv(q[i] * QOne, mag)]

Bone(rot) == [pos |-> << 0, 0, 0 >>, rot |-> rot]

----------------------------------------------------------------------------
(* Blendshape clamping / eye-conflict resolution                            *)

_EYE_BLINK_NAMES ==
    { "Blink", "Blink_L", "Blink_R", "BlinkLeft", "BlinkRight",
      "EyeBlinkLeft", "EyeBlinkRight", "eyeBlinkLeft", "eyeBlinkRight" }

_EXPRESSIONS_AFFECTING_EYES == { "Joy", "Angry" }

\* max(0.0, min(1.0, v))
Clamp01(v) == Max(0, Min(One, v))

\* max((result.get(n, 0.0) for n in _EXPRESSIONS_AFFECTING_EYES), default=0.0)
ExprEye(result) ==
    LET vals == { Get(result, n, 0) : n \in _EXPRESSIONS_AFFECTING_EYES }
    IN  CHOOSE v \in vals : \A w \in vals : w <= v

\* the eye-conflict rule fires above 0.05
EyeThreshold == One \div 20

\* cap = max(0.0, 1.0 - expr_eye * 0.7)
EyeCap(expr_eye) == Max(0, One - (expr_eye * 7) \div 10)

\* variant: the eye rule without the clamp of line 77
clamp_noclamp(bs) ==
    LET expr_eye == ExprEye(bs)
    IN  IF expr_eye > EyeThreshold
        THEN [k \in DOMAIN bs |->
                IF k \in _EYE_BLINK_NAMES THEN Min(bs[k], EyeCap(expr_eye))
                ELSE bs[k]]
        ELSE bs

\* variant: the cap applied to every name, not only the eye-blink names
clamp_capall(bs) ==
    LET result == [k \in DOMAIN bs |-> Clamp01(bs[k])]
        expr_eye == ExprEye(result)
    IN  IF expr_eye > EyeThreshold
        THEN [k \in DOMAIN result |-> Min(result[k], EyeCap(expr_eye))]
        ELSE result

_clamp_blendshapes(bs) ==
    LET result == [k \in DOMAIN bs |-> Clamp01(bs[k])]
        expr_eye == ExprEye(result)
    IN  IF expr_eye > EyeThreshold
        THEN [k \in DOMAIN result |->
                IF k \in _EYE_BLINK_NAMES THEN Min(result[k], EyeCap(expr_eye))
                ELSE result[k]]
        ELSE result

----------------------------------------------------------------------------
(* Frames                                                                   *)

\* None and {} : the two falsy values a frame variable can hold
NoneFrame == [none |-> TRUE]
EmptyDict == [empty |-> TRUE]
Falsy(f) == f \in { NoneFrame, EmptyDict }

Frame(t, bs, bones) == [t |-> t, blendshapes |-> bs, bones |-> bones]

\* f.get("blendshapes", {}) and f.get("bones", {})
BsOf(f) == IF Falsy(f) THEN EmptyMap ELSE f.blendshapes
BonesOf(f) == IF Falsy(f) THEN EmptyMap ELSE f.bones

\* bones.get(name, {}).get("rot", [0, 0, 0, 1])
RotOf(bones, name) ==
    IF name \in DOMAIN bones THEN bones[name].rot ELSE _quat_identity

\* variant: idle + delta without the clamp to [0,1]
merge_layers_noclamp(idle, action) ==
    IF Falsy(action) THEN idle
    ELSE IF Falsy(idle) THEN action
    ELSE [ blendshapes |->
             [name \in DOMAIN idle.blendshapes \cup DOMAIN action.blendshapes |->
                Get(idle.blendshapes, name, 0) + Get(action.blendshapes, name, 0)],
           bones |->
             [name \in DOMAIN idle.bones \cup DOMAIN action.bones |->
                Bone(_quat_normalize(_quat_multiply(RotOf(idle.bones, name),
                                                    RotOf(action.bones, name))))] ]

\* variant: the action value replaces the idle value instead of adding to it
merge_layers_override(idle, action) ==
    IF Falsy(action) THEN idle
    ELSE IF Falsy(idle) THEN action
    ELSE [ blendshapes |->
             [name \in DOMAIN idle.blendshapes \cup DOMAIN action.blendshapes |->
                Clamp01(IF name \in DOMAIN action.blendshapes
                        THEN action.blendshapes[name]
                        ELSE idle.blendshapes[name])],
           bones |->
             [name \in DOMAIN idle.bones \cup DOMAIN action.bones |->
                Bone(_quat_normalize(IF name \in DOMAIN action.bones
                                     THEN action.bones[name].rot
                                     ELSE idle.bones[name].rot))] ]

\* VMCPlayer._merge_layers: absolute idle + relative action delta
_merge_layers(idle, action) ==
    IF Falsy(action) THEN idle
    ELSE IF Falsy(idle) THEN action
    ELSE [ blendshapes |->
             [name \in DOMAIN idle.blendshapes \cup DOMAIN action.blendshapes |->
                Clamp01(Get(idle.blendshapes, name, 0)
                        + Get(action.blendshapes, name, 0))],
           bones |->
             [name \in DOMAIN idle.bones \cup DOMAIN action.bones |->
                Bone(_quat_normalize(_quat_multiply(RotOf(idle.bones, name),
                                                    RotOf(action.bones, name))))] ]

\* variant: the action frames folded last to first
RECURSIVE fold_merge_reversed(_, _)
fold_merge_reversed(result, action_frames) ==
    IF action_frames = << >> THEN result
    ELSE _merge_layers(fold_merge_reversed(result, Tail(action_frames)),
                       Head(action_frames))

\* the loop of _merge_multiple_actions
RECURSIVE FoldMerge(_, _)
FoldMerge(result, action_frames) ==
    IF action_frames = << >> THEN result
    ELSE FoldMerge(_merge_layers(result, Head(action_frames)), Tail(action_frames))

\* VMCPlayer._merge_multiple_actions
_merge_multiple_actions(idle, action_frames) ==
    IF action_frames = << >> THEN idle
    ELSE FoldMerge(IF Falsy(idle) THEN EmptyDict ELSE idle, action_frames)

----------------------------------------------------------------------------
(* Frame helpers and layer sampling                                         *)

RENDER_FPS == 30
CROSSFADE_MS == 500

\* variant: the test f["t"] < target_ms
RECURSIVE find_from_strict(_, _, _, _)
find_from_strict(frames, target_ms, i, best) ==
    IF i > Len(frames) THEN best
    ELSE IF frames[i].t < target_ms THEN find_from_strict(frames, target_ms, i + 1, i)
    ELSE best

\* the loop of _find_frame from position i, best being the index kept so far
RECURSIVE FindFrom(_, _, _, _)
FindFrom(frames, target_ms, i, best) ==
    IF i > Len(frames) THEN best
    ELSE IF frames[i].t <= target_ms THEN FindFrom(frames, target_ms, i + 1, i)
    ELSE best

\* VMCPlayer._find_frame, as the index of the frame it returns
FindIdx(frames, target_ms) == FindFrom(frames, target_ms, 1, 1)

_find_frame(frames, target_ms) == frames[FindIdx(frames, target_ms)]

\* VMCPlayer._blend_frames with t = num / den
_blend_frames(a, b, num, den) ==
    [ blendshapes |->
        [name \in DOMAIN a.blendshapes \cup DOMAIN b.blendshapes |->
           LET va == Get(a.blendshapes, name, 0)
               vb == Get(b.blendshapes, name, 0)
           IN  va + RoundDiv((vb - va) * num, den)],
      bones |->
        [name \in DOMAIN a.bones \cup DOMAIN b.bones |->
           LET ar == RotOf(a.bones, name)
               b0 == RotOf(b.bones, name)
               dot == ar[1] * b0[1] + ar[2] * b0[2] + ar[3] * b0[3] + ar[4] * b0[4]
               br == IF dot < 0 THEN [i \in 1..4 |-> -b0[i]] ELSE b0
           IN  Bone(_quat_normalize(
                   [i \in 1..4 |-> ar[i] + RoundDiv((br[i] - ar[i]) * num, den)]))] ]

\* variant: cf_ms = duration_ms * 0.3, without the cap at CROSSFADE_MS
cf10_nocap(duration_ms) == 3 * duration_ms

\* ten times cf_ms = min(CROSSFADE_MS, duration_ms * 0.3)
Cf10(duration_ms) == Min(10 * CROSSFADE_MS, 3 * duration_ms)

\* the crossfade test of _get_idle_frame at wrapped time e, and the blend
\* parameter (elapsed_ms - (duration_ms - cf_ms)) / cf_ms as num / den
IdleBlend(frames, e) ==
    LET D == frames[Len(frames)].t
        cf10 == Cf10(D)
    IN  [ on  |-> cf10 > 0 /\ 10 * e > 10 * D - cf10,
          num |-> 10 * e - (10 * D - cf10),
          den |-> cf10 ]

\* the part of _get_idle_frame after the wrap: e is elapsed_ms, already in [0, D)
IdleAt(frames, e) ==
    LET idx == FindIdx(frames, e)
        blend == IdleBlend(frames, e)
    IN  IF blend.on
        THEN [frame |-> _blend_frames(frames[idx], frames[1], blend.num, blend.den),
              kind |-> "fresh", idx |-> 0]
        ELSE [frame |-> frames[idx], kind |-> "idle", idx |-> idx]

\* VMCPlayer._get_idle_frame(elapsed_s), with the elapsed time in ms.  kind says
\* which object the result is: the stored frame itself ("idle"), a shallow copy
\* of the stored frame 0 that shares its inner dicts ("idlecopy"), or a new one.
_get_idle_frame(frames, elapsed_total_ms) ==
    IF frames = << >> THEN [frame |-> NoneFrame, kind |-> "fresh", idx |-> 0]
    ELSE IF frames[Len(frames)].t <= 0
         THEN [frame |-> frames[1], kind |-> "idlecopy", idx |-> 1]
         ELSE IdleAt(frames, elapsed_total_ms % frames[Len(frames)].t)

\* variant: a looping action that has reached its duration is removed as well
action_step_loop_expires(a, t) ==
    IF a.frames = << >> THEN [keep |-> TRUE, action |-> a, idx |-> 0]
    ELSE IF t - a.start_time >= a.frames[Len(a.frames)].t
         THEN [keep |-> FALSE, action |-> a, idx |-> 0]
         ELSE [keep |-> TRUE, action |-> a, idx |-> FindIdx(a.frames, t - a.start_time)]

\* one iteration of the loop of _get_active_action_frames over action a at time t:
\* what happens to the action and the index of the frame it contributes (0: none)
ActionStep(a, t) ==
    IF a.frames = << >> THEN [keep |-> TRUE, action |-> a, idx |-> 0]
    ELSE LET elapsed_ms == t - a.start_time
             duration_ms == a.frames[Len(a.frames)].t
         IN  IF elapsed_ms >= duration_ms
             THEN IF a.loop
                  THEN [keep |-> TRUE, action |-> [a EXCEPT !.start_time = t],
                        idx |-> FindIdx(a.frames, 0)]
                  ELSE [keep |-> FALSE, action |-> a, idx |-> 0]
             ELSE [keep |-> TRUE, action |-> a, idx |-> FindIdx(a.frames, elapsed_ms)]

RECURSIVE SampleFrom(_, _, _, _)
SampleFrom(actions, t, i, acc) ==
    IF i > Len(actions) THEN acc
    ELSE LET s == ActionStep(actions[i], t)
         IN  SampleFrom(actions, t, i + 1,
               [ frames  |-> IF s.idx = 0 THEN acc.frames
                             ELSE Append(acc.frames, s.action.frames[s.idx]),
                 refs    |-> IF s.idx = 0 THEN acc.refs
                             ELSE Append(acc.refs, << s.action.id, s.idx >>),
                 actions |-> IF s.keep THEN Append(acc.actions, s.action)
                             ELSE acc.actions ])

\* VMCPlayer._get_active_action_frames at time t: the sampled frames (with the
\* action id and frame index each one is), and the action list it leaves
_get_active_action_frames(actions, t) ==
    SampleFrom(actions, t, 1, [frames |-> << >>, refs |-> << >>, actions |-> << >>])

\* names mentioned anywhere in a clip
ClipBsNames(frames) == UNION { DOMAIN frames[i].blendshapes : i \in 1..Len(frames) }
ClipBoneNames(frames) == UNION { DOMAIN frames[i].bones : i \in 1..Len(frames) }

----------------------------------------------------------------------------
(* Rest pose and sender                                                     *)

_DEFAULT_REST_POSE ==
    [ name \in { "LeftUpperArm", "RightUpperArm", "LeftLowerArm", "RightLowerArm" } |->
        Bone(CASE name = "LeftUpperArm"  -> << 0, 0, 5736, 8192 >>
               [] name = "RightUpperArm" -> << 0, 0, -5736, 8192 >>
               [] name = "LeftLowerArm"  -> << 0, 0, 436, 9990 >>
               [] name = "RightLowerArm" -> << 0, 0, -436, 9990 >>) ]

\* get_rest_pose(): the live rest pose, loaded on first use (_load_rest_pose)
get_rest_pose(live, file) ==
    IF DOMAIN live # {} THEN live
    ELSE IF file.exists THEN file.bones
    ELSE _DEFAULT_REST_POSE

\* the entries of a dict in iteration order
RECURSIVE Items(_)
Items(m) ==
    IF DOMAIN m = {} THEN << >>
    ELSE LET k == CHOOSE x \in DOMAIN m : TRUE
         IN  << << k, m[k] >> >> \o Items([x \in DOMAIN m \ {k} |-> m[x]])

ValMsg(name, value) == [addr |-> "/VMC/Ext/Blend/Val", name |-> name, value |-> value]
ApplyMsg == [addr |-> "/VMC/Ext/Blend/Apply"]
BoneMsg(name, pos, rot) ==
    [addr |-> "/VMC/Ext/Bone/Pos", name |-> name, pos |-> pos, rot |-> rot]

RECURSIVE ValMsgs(_)
ValMsgs(items) ==
    IF items = << >> THEN << >>
    ELSE << ValMsg(Head(items)[1], Head(items)[2]) >> \o ValMsgs(Tail(items))

\* variant: the bone loop without the Hips test
bone_msgs_with_hips(items) ==
    [i \in 1..Len(items) |-> BoneMsg(items[i][1], << 0, 0, 0 >>, items[i][2].rot)]

\* the bone loop of send_frame and of apply_rest_pose: Hips is skipped, the
\* position is sent as zero
RECURSIVE BoneMsgs(_)
BoneMsgs(items) ==
    IF items = << >> THEN << >>
    ELSE IF Head(items)[1] = "Hips" THEN BoneMsgs(Tail(items))
    ELSE << BoneMsg(Head(items)[1], << 0, 0, 0 >>, Head(items)[2].rot) >>
         \o BoneMsgs(Tail(items))

\* VMCSender.send_blendshapes
send_blendshapes(blendshapes) ==
    ValMsgs(Items(_clamp_blendshapes(blendshapes))) \o << ApplyMsg >>

\* variant: merged_bones is the live rest pose itself
dict_itself(rp) == [same_dict |-> TRUE, bones |-> rp]

\* merged_bones = dict(get_rest_pose()): a new dict with the same entries
DictCopy(rp) == [same_dict |-> FALSE, bones |-> rp]

\* variant: the Apply sent after the bones
send_frame_apply_last(frame, include_bones, rp) ==
    LET bs == _clamp_blendshapes(BsOf(frame))
        merged_bones == IF include_bones THEN Update(rp, BonesOf(frame)) ELSE rp
    IN  ValMsgs(Items(bs)) \o BoneMsgs(Items(merged_bones)) \o << ApplyMsg >>

\* VMCSender.send_frame, with rp the rest pose get_rest_pose() returns
send_frame(frame, include_bones, rp) ==
    LET bs == _clamp_blendshapes(BsOf(frame))
        merged_bones == IF include_bones THEN Update(DictCopy(rp).bones, BonesOf(frame))
                        ELSE DictCopy(rp).bones
    IN  ValMsgs(Items(bs)) \o << ApplyMsg >> \o BoneMsgs(Items(merged_bones))

\* what a send leaves on the host: the value of each Val message, applied by
\* the Apply that follows them
ValuesOf(msgs) ==
    LET vals == { i \in 1..Len(msgs) : msgs[i].addr = "/VMC/Ext/Blend/Val" }
    IN  [ n \in { msgs[i].name : i \in vals } |->
            msgs[CHOOSE i \in vals : msgs[i].name = n].value ]

\* apply_rest_pose
apply_rest_pose(rp) == BoneMsgs(Items(rp))

\* set_rest_pose: the Hips key is stripped
StripHips(bones) == [k \in DOMAIN bones \ { "Hips" } |-> bones[k]]

----------------------------------------------------------------------------
(* Inputs: the clips, rest pose files and bounds of the model               *)

QJ == << 0, QOne, 0, 0 >>
QK == << 0, 0, QOne, 0 >>
QTwice == << 0, 0, 0, 2 * QOne >>

\* a 200 ms relative clip ending with a non-zero delta on Sorrow
ActSorrow ==
    << Frame(0, Map1("Sorrow", 0), EmptyMap),
       Frame(200, Map1("Sorrow", 600), EmptyMap) >>

\* a 100 ms relative clip that moves Head and Hips and over-drives Joy
ActNod ==
    << Frame(0, Map1("Joy", 1500), Map2("Head", Bone(QJ), "Hips", Bone(QJ))),
       Frame(100, Map2("Joy", -500, "Blink", 1000), Map1("Head", Bone(_quat_identity))) >>

ActionClips == { ActSorrow, ActNod }

\* a static absolute pose
IdleSmile == << Frame(0, Map1("Joy", 500), Map1("Head", Bone(QK))) >>

\* a 250 ms absolute clip (crossfade window: the last 75 ms)
IdleBlink ==
    << Frame(0, Map1("Blink", 0), EmptyMap),
       Frame(250, Map1("Blink", 900), EmptyMap) >>

IdleClips == { IdleSmile, IdleBlink }

IdleNameOf(clip) == IF clip = IdleSmile THEN "smile" ELSE "blink"

NoFile == [exists |-> FALSE, bones |-> EmptyMap]
CustomFile == [exists |-> TRUE,
               bones |-> Map2("Hips", Bone(QK), "Head", Bone(QJ))]
RestFiles == { NoFile, CustomFile }

Callers == { 1, 2 }
Threads == { 1, 2 }

\* the number of API calls of a run, and its length in clock steps
MaxCalls == 3
MaxSteps == 3
TimeSteps == { 100 }

----------------------------------------------------------------------------
(* State                                                                    *)

FreshRef == [kind |-> "fresh", owner |-> 0, idx |-> 0]
NoThread == [pc |-> "none", idle_epoch |-> 0, merged |-> NoneFrame, ref |-> FreshRef]
Ended(pc) == [pc |-> pc, idle_epoch |-> 0, merged |-> NoneFrame, ref |-> FreshRef]
NoCall == [op |-> "none", pc |-> "idle"]
NoExp == [phase |-> "none", id |-> 0, bs |-> {}, bones |-> {}]
NoStop == [phase |-> "none", armed |-> FALSE, names |-> {}, reset |-> "none"]
NoFn == [op |-> "none", in |-> << >>, out |-> << >>]
NoWire == [by |-> "none", msgs |-> << >>]

\* VMCRecorder.__init__
NewRecorder ==
    [ server |-> 0, server_thread |-> 0, recording |-> FALSE, start_time |-> 0,
      frames |-> << >>, current_blendshapes |-> EmptyMap, current_bones |-> EmptyMap,
      last_sample_time |-> 0 ]

\* an OSC handler thread or an API caller of the recorder that is not running
NoHandler == [pc |-> "none", now |-> 0]
NoRecCall == [pc |-> "idle", server |-> 0]

\* the message handlers that can run at the same time, and the API callers
Handlers == { 1, 2 }
RecCallers == { 1, 2 }

\* no socket bound, nothing in flight, nothing returned yet
NoOsc ==
    [ sockets |-> << >>, raised |-> FALSE,
      h |-> [i \in Handlers |-> NoHandler],
      api |-> [c \in RecCallers |-> NoRecCall],
      arrivals |-> 0, ncalls |-> 0, msg |-> << >>,
      returned |-> [same_list |-> FALSE, frames |-> << >>],
      aliased |-> {},
      has_returned |-> FALSE, last |-> "none" ]

\* PRESETS_DIR before the first save: no directory, no file
NoPresets == [dir |-> FALSE, files |-> EmptyMap]

\* threading.Thread.is_alive() is false
Dead(th) == IF th = 0 THEN TRUE ELSE rt[th].pc \in { "none", "dead", "crashed" }

\* VMCPlayer.is_playing
is_playing == idle_active \/ active_actions # << >>

PlayerInit ==
    /\ idle_frames = << >>
    /\ idle_active = FALSE
    /\ idle_name = ""
    /\ idle_gen = 0
    /\ active_actions = << >>
    /\ dirty_blendshapes = {}
    /\ dirty_bones = {}
    /\ running = FALSE
    /\ thread = 0
    /\ rt = [th \in Threads |-> NoThread]
    /\ calls = [c \in Callers |-> NoCall]
    /\ ncalls = 0
    /\ rest_pose = EmptyMap
    /\ wire = NoWire
    /\ exp = NoExp
    /\ stopped = NoStop
    /\ recorder = NewRecorder
    /\ osc = NoOsc
    /\ host = EmptyMap
    /\ presets = NoPresets

Init ==
    /\ now = 0
    /\ PlayerInit
    /\ rest_file = NoFile
    /\ fn = NoFn

----------------------------------------------------------------------------
(* The API calls of VMCPlayer.  A call begins with its locked section; the   *)
(* steps of _ensure_thread and of stop() after it are separate actions.      *)

CanCall(c) == calls[c].pc = "idle" /\ ncalls < MaxCalls

Return(c) == calls' = [calls EXCEPT ![c] = NoCall]

\* set_idle: the locked section
SetIdle(c, frames) ==
    /\ CanCall(c)
    /\ idle_frames' = frames
    /\ idle_active' = TRUE
    /\ idle_name' = IdleNameOf(frames)
    /\ idle_gen' = ncalls + 1
    /\ ncalls' = ncalls + 1
    /\ calls' = [calls EXCEPT ![c] = [op |-> "set_idle", pc |-> "ensure"]]
    /\ exp' = NoExp
    /\ stopped' = NoStop
    /\ UNCHANGED << now, active_actions, dirty_blendshapes, dirty_bones, running,
                    thread, rt, rest_pose, rest_file, wire, fn, recorder, osc, host, presets >>

\* stop_idle
StopIdle(c) ==
    /\ CanCall(c)
    /\ idle_active' = FALSE
    /\ idle_name' = ""
    /\ ncalls' = ncalls + 1
    /\ exp' = NoExp
    /\ stopped' = NoStop
    /\ UNCHANGED << now, idle_frames, idle_gen, active_actions, dirty_blendshapes,
                    dirty_bones, running, thread, rt, calls, rest_pose, rest_file,
                    wire, fn, recorder, osc, host, presets >>

\* variant: the new action is put in front of the list
list_prepend(actions, action) == << action >> \o actions

\* self._active_actions.append(action)
ListAppend(actions, action) == Append(actions, action)

\* play_action: the locked section
PlayAction(c, frames, loop) ==
    /\ CanCall(c)
    /\ active_actions' = ListAppend(active_actions,
           [frames |-> frames, loop |-> loop, start_time |-> now, id |-> ncalls + 1])
    /\ dirty_blendshapes' = dirty_blendshapes \cup ClipBsNames(frames)
    /\ dirty_bones' = dirty_bones \cup ClipBoneNames(frames)
    /\ ncalls' = ncalls + 1
    /\ calls' = [calls EXCEPT ![c] = [op |-> "play_action", pc |-> "ensure"]]
    /\ exp' = [phase |-> "played", id |-> ncalls + 1,
               bs |-> ClipBsNames(frames), bones |-> ClipBoneNames(frames)]
    /\ stopped' = NoStop
    /\ UNCHANGED << now, idle_frames, idle_active, idle_name, idle_gen, running,
                    thread, rt, rest_pose, rest_file, wire, fn, recorder, osc, host, presets >>

\* variant: stop_action also switches the idle layer off
stop_action_idle_off(c) ==
    /\ CanCall(c)
    /\ active_actions' = << >>
    /\ idle_active' = FALSE
    /\ idle_name' = ""
    /\ ncalls' = ncalls + 1
    /\ exp' = NoExp
    /\ stopped' = [NoStop EXCEPT !.phase = "stop_action",
                                 !.names = UNION { ClipBsNames(active_actions[i].frames) :
                                                      i \in 1..Len(active_actions) }]
    /\ UNCHANGED << now, idle_frames, idle_gen,
                    dirty_blendshapes, dirty_bones, running, thread, rt, calls,
                    rest_pose, rest_file, wire, fn, recorder, osc, host, presets >>

\* stop_action
StopAction(c) ==
    /\ CanCall(c)
    /\ active_actions' = << >>
    /\ ncalls' = ncalls + 1
    /\ exp' = NoExp
    /\ stopped' = [NoStop EXCEPT !.phase = "stop_action",
                                 !.names = UNION { ClipBsNames(active_actions[i].frames) :
                                                      i \in 1..Len(active_actions) }]
    /\ UNCHANGED << now, idle_frames, idle_active, idle_name, idle_gen,
                    dirty_blendshapes, dirty_bones, running, thread, rt, calls,
                    rest_pose, rest_file, wire, fn, recorder, osc, host, presets >>

\* the blendshape names _send_reset would collect in the current state
ResetNames ==
    dirty_blendshapes
      \cup UNION { ClipBsNames(active_actions[i].frames) : i \in 1..Len(active_actions) }
      \cup ClipBsNames(idle_frames)

\* stop: the locked section
Stop(c) ==
    /\ CanCall(c)
    /\ idle_active' = FALSE
    /\ active_actions' = << >>
    /\ dirty_blendshapes' = {}
    /\ dirty_bones' = {}
    /\ ncalls' = ncalls + 1
    /\ calls' = [calls EXCEPT ![c] = [op |-> "stop", pc |-> "stop_flag"]]
    /\ exp' = NoExp
    /\ stopped' = [phase |-> "called",
                   armed |-> active_actions # << >> /\ running
                             /\ \E th \in Threads : ~Dead(th),
                   names |-> ResetNames,
                   reset |-> "none"]
    /\ UNCHANGED << now, idle_frames, idle_name, idle_gen, running, thread, rt,
                    rest_pose, rest_file, wire, fn, recorder, osc, host, presets >>

\* stop: self._running = False, then look at self._thread
StopFlag(c) ==
    /\ calls[c].pc = "stop_flag"
    /\ running' = FALSE
    /\ calls' = [calls EXCEPT ![c] = IF thread # 0 THEN [@ EXCEPT !.pc = "stop_join"]
                                     ELSE NoCall]
    /\ stopped' = IF thread # 0 THEN stopped ELSE [stopped EXCEPT !.phase = "returned"]
    /\ UNCHANGED << now, idle_frames, idle_active, idle_name, idle_gen,
                    active_actions, dirty_blendshapes, dirty_bones, thread, rt, ncalls,
                    rest_pose, rest_file, wire, exp, fn, recorder, osc, host, presets >>

\* a join with a timeout runs into it when the joined thread keeps looping:
\* _running is (again) true and a layer that does not end by itself is playing
JoinTimesOut(th) ==
    /\ ~Dead(th)
    /\ running
    /\ rt[th].pc \in { "tick", "cleanup" }
    /\ idle_active \/ \E i \in 1..Len(active_actions) : active_actions[i].loop

\* variant: a join without timeout
join_forever(th) == Dead(th)

\* thread.join(timeout=...) returns: the thread has ended, or the timeout
JoinReturns(th) == Dead(th) \/ JoinTimesOut(th)

\* stop: self._thread.join(timeout=2); self._thread = None
StopJoin(c) ==
    /\ calls[c].pc = "stop_join"
    /\ JoinReturns(thread)
    /\ thread' = 0
    /\ Return(c)
    /\ stopped' = [stopped EXCEPT !.phase = "returned"]
    /\ UNCHANGED << now, idle_frames, idle_active, idle_name, idle_gen,
                    active_actions, dirty_blendshapes, dirty_bones, running, rt, ncalls,
                    rest_pose, rest_file, wire, exp, fn, recorder, osc, host, presets >>

\* _ensure_thread: if self._running: return
EnsureThread(c) ==
    /\ calls[c].pc = "ensure"
    /\ calls' = [calls EXCEPT ![c] = IF running THEN NoCall ELSE [@ EXCEPT !.pc = "join"]]
    /\ UNCHANGED << now, idle_frames, idle_active, idle_name, idle_gen,
                    active_actions, dirty_blendshapes, dirty_bones, running, thread, rt,
                    ncalls, rest_pose, rest_file, wire, exp, stopped, fn, recorder, osc, host, presets >>

\* _ensure_thread: join the old thread if any, set _running, start a new thread
\* (_render_loop begins by taking idle_epoch)
StartThread(c) ==
    /\ calls[c].pc = "join"
    /\ JoinReturns(thread)
    /\ \E th \in Threads :
         /\ Dead(th)
         /\ \A o \in Threads : o < th => ~Dead(o)
         /\ rt' = [rt EXCEPT ![th] = [pc |-> "tick", idle_epoch |-> now,
                                      merged |-> NoneFrame, ref |-> FreshRef]]
         /\ thread' = th
    /\ running' = TRUE
    /\ Return(c)
    /\ host' = EmptyMap
    /\ UNCHANGED << now, idle_frames, idle_active, idle_name, idle_gen,
                    active_actions, dirty_blendshapes, dirty_bones, ncalls, rest_pose,
                    rest_file, wire, exp, stopped, fn, recorder, osc, presets >>

----------------------------------------------------------------------------
(* The render thread: VMCPlayer._render_loop                                 *)

\* the sampled idle frame of a tick of thread th
IdleSampleOf(th) ==
    IF idle_active /\ idle_frames # << >>
    THEN _get_idle_frame(idle_frames, now - rt[th].idle_epoch)
    ELSE [frame |-> NoneFrame, kind |-> "fresh", idx |-> 0]

\* which stored object the merged frame is, if any: with no action frame it is
\* the sampled idle frame, with no idle and one action frame it is that stored
\* action frame (_merge_layers returns its argument)
MergedRef(idle_s, sm) ==
    IF sm.frames = << >> THEN [kind |-> idle_s.kind, owner |-> idle_gen, idx |-> idle_s.idx]
    ELSE IF Falsy(idle_s.frame) /\ Len(sm.frames) = 1
         THEN [kind |-> "act", owner |-> sm.refs[1][1], idx |-> sm.refs[1][2]]
         ELSE FreshRef

\* the position after the loop body: sleep, then the next `while self._running`
\* test.  Model time is coarser than the 1/30 s period, so a tick may follow at
\* the same instant.
\* One loop iteration up to the merge: the `while self._running` test, the
\* first locked section (break test, idle and action sampling) and the merge.
Tick(th) ==
    /\ rt[th].pc = "tick"
    /\ IF ~running \/ (~idle_active /\ active_actions = << >>)
       THEN /\ rt' = [rt EXCEPT ![th].pc = "reset"]
            /\ UNCHANGED << active_actions, exp >>
       ELSE LET idle_s == IdleSampleOf(th)
                sm == _get_active_action_frames(active_actions, now)
                merged == _merge_multiple_actions(idle_s.frame, sm.frames)
            IN  /\ active_actions' = sm.actions
                /\ rt' = [rt EXCEPT ![th] =
                            IF Falsy(merged) THEN [@ EXCEPT !.merged = NoneFrame,
                                                            !.ref = FreshRef]
                            ELSE [@ EXCEPT !.pc = "cleanup", !.merged = merged,
                                           !.ref = MergedRef(idle_s, sm)]]
                /\ exp' = IF /\ exp.phase = "played"
                             /\ ~idle_active
                             /\ Len(active_actions) = 1
                             /\ active_actions[1].id = exp.id
                             /\ sm.actions = << >>
                          THEN [exp EXCEPT !.phase = "pending"]
                          ELSE exp
    /\ UNCHANGED << now, idle_frames, idle_active, idle_name, idle_gen,
                    dirty_blendshapes, dirty_bones, running, thread, calls, ncalls,
                    rest_pose, rest_file, wire, stopped, fn, recorder, osc, host, presets >>

\* dirty names absent from the merged frame are inserted as 0.0 / identity
FillBs(bs, dirty) ==
    [name \in DOMAIN bs \cup dirty |-> IF name \in DOMAIN bs THEN bs[name] ELSE 0]

FillBones(bones, dirty) ==
    [name \in DOMAIN bones \cup (dirty \ { "Hips" }) |->
        IF name \in DOMAIN bones THEN bones[name] ELSE Bone(_quat_identity)]

\* index of the action with this id in the active list, 0 if it is gone
ActionIndex(id) ==
    IF \E i \in 1..Len(active_actions) : active_actions[i].id = id
    THEN CHOOSE i \in 1..Len(active_actions) : active_actions[i].id = id
    ELSE 0

\* The second locked section (dirty-name cleanup on the merged frame) and the
\* send_frame call that follows it.  The inserts are made in place, so they
\* reach the stored clip frame when the merged frame is that frame (or shares
\* its dicts).  The send reads only the thread's own merged frame and the rest
\* pose, so it is taken in the same step as the cleanup.
CleanupSend(th) ==
    /\ rt[th].pc = "cleanup"
    /\ LET m == rt[th].merged
           ref == rt[th].ref
           bs2 == FillBs(m.blendshapes, dirty_blendshapes)
           bones2 == FillBones(m.bones, dirty_bones)
           m2 == [m EXCEPT !.blendshapes = bs2, !.bones = bones2]
           ai == IF ref.kind = "act" THEN ActionIndex(ref.owner) ELSE 0
       IN  /\ idle_frames' =
                IF ref.kind = "idle" /\ ref.owner = idle_gen
                THEN [idle_frames EXCEPT ![ref.idx] = m2]
                ELSE IF ref.kind = "idlecopy" /\ ref.owner = idle_gen
                THEN [idle_frames EXCEPT
                        ![1] = [@ EXCEPT !.blendshapes = bs2,
                                         !.bones = IF DOMAIN @ # {} THEN bones2 ELSE @]]
                ELSE idle_frames
           /\ active_actions' =
                IF ai # 0
                THEN [active_actions EXCEPT ![ai].frames[ref.idx] = m2]
                ELSE active_actions
           /\ rest_pose' = get_rest_pose(rest_pose, rest_file)
           /\ wire' = [by |-> "tick",
                       msgs |-> send_frame(m2, DOMAIN bones2 # {}, rest_pose')]
           /\ host' = Update(host, ValuesOf(wire'.msgs))
    /\ IF ~idle_active /\ active_actions = << >>
       THEN dirty_blendshapes' = {} /\ dirty_bones' = {}
       ELSE UNCHANGED << dirty_blendshapes, dirty_bones >>
    /\ rt' = [rt EXCEPT ![th] = [@ EXCEPT !.pc = "tick", !.merged = NoneFrame,
                                          !.ref = FreshRef]]
    /\ exp' = IF exp.phase = "pending" THEN [exp EXCEPT !.phase = "emitted"] ELSE exp
    /\ UNCHANGED << now, idle_active, idle_name, idle_gen, running, thread, calls,
                    ncalls, rest_file, stopped, fn, recorder, osc, presets >>

\* _send_reset up to its send: every collected name set to 0.0, no bones, and
\* nothing at all when no name was collected
Reset(th) ==
    /\ rt[th].pc = "reset"
    /\ rt' = [rt EXCEPT ![th].pc = "reset_clear"]
    /\ IF ResetNames # {}
       THEN /\ rest_pose' = get_rest_pose(rest_pose, rest_file)
            /\ wire' = [by |-> "reset",
                        msgs |-> send_frame(
                            [blendshapes |-> [n \in ResetNames |-> 0], bones |-> EmptyMap],
                            FALSE, rest_pose')]
            /\ host' = Update(host, ValuesOf(wire'.msgs))
            /\ exp' = IF exp.phase = "pending" THEN [exp EXCEPT !.phase = "emitted"]
                      ELSE exp
            /\ stopped' = IF stopped.phase = "called"
                          THEN [stopped EXCEPT !.reset = "frame"] ELSE stopped
       ELSE /\ UNCHANGED << rest_pose, wire, exp, host >>
            /\ stopped' = IF stopped.phase = "called"
                          THEN [stopped EXCEPT !.reset = "noframe"] ELSE stopped
    /\ UNCHANGED << now, idle_frames, idle_active, idle_name, idle_gen,
                    active_actions, dirty_blendshapes, dirty_bones, running, thread,
                    calls, ncalls, rest_file, fn, recorder, osc, presets >>

\* _send_reset: the two clear() calls at its end
ResetClear(th) ==
    /\ rt[th].pc = "reset_clear"
    /\ dirty_blendshapes' = {}
    /\ dirty_bones' = {}
    /\ rt' = [rt EXCEPT ![th].pc = "clear_running"]
    /\ exp' = IF exp.phase \in { "pending", "emitted" }
              THEN [exp EXCEPT !.phase = IF @ = "emitted" THEN "done" ELSE "silent"]
              ELSE exp
    /\ UNCHANGED << now, idle_frames, idle_active, idle_name, idle_gen,
                    active_actions, running, thread, calls, ncalls, rest_pose,
                    rest_file, wire, stopped, fn, recorder, osc, host, presets >>

\* the last statement of _render_loop: self._running = False; the thread ends
ClearRunning(th) ==
    /\ rt[th].pc = "clear_running"
    /\ running' = FALSE
    /\ rt' = [rt EXCEPT ![th] = Ended("dead")]
    /\ UNCHANGED << now, idle_frames, idle_active, idle_name, idle_gen,
                    active_actions, dirty_blendshapes, dirty_bones, thread, calls,
                    ncalls, rest_pose, rest_file, wire, exp, stopped, fn, recorder, osc, host, presets >>

\* An exception raised inside a tick (sampling, merging or sending): nothing in
\* _render_loop catches it, so the thread ends there, without _send_reset and
\* without clearing _running.
Raise(th) ==
    /\ rt[th].pc \in { "tick", "cleanup" }
    /\ running
    /\ rt' = [rt EXCEPT ![th] = Ended("crashed")]
    /\ UNCHANGED << now, idle_frames, idle_active, idle_name, idle_gen,
                    active_actions, dirty_blendshapes, dirty_bones, running, thread,
                    calls, ncalls, rest_pose, rest_file, wire, exp, stopped, fn, recorder, osc, host, presets >>

\* time passes
Advance ==
    /\ \E d \in TimeSteps :
         /\ now + d <= MaxSteps * 100
         /\ now' = now + d
    /\ UNCHANGED << idle_frames, idle_active, idle_name, idle_gen, active_actions,
                    dirty_blendshapes, dirty_bones, running, thread, rt, calls, ncalls,
                    rest_pose, rest_file, wire, exp, stopped, fn, recorder, osc, host, presets >>

----------------------------------------------------------------------------
(* Specifications                                                           *)

ApiCall(c) ==
    \/ \E frames \in IdleClips : SetIdle(c, frames)
    \/ StopIdle(c)
    \/ \E frames \in ActionClips, loop \in BOOLEAN : PlayAction(c, frames, loop)
    \/ StopAction(c)
    \/ Stop(c)

CallStep(c) ==
    \/ EnsureThread(c)
    \/ StartThread(c)
    \/ StopFlag(c)
    \/ StopJoin(c)

RenderStep(th) ==
    \/ Tick(th)
    \/ CleanupSend(th)
    \/ Reset(th)
    \/ ResetClear(th)
    \/ ClearRunning(th)

\* one caller at a time (the REST handlers called one after another), the
\* render thread and the clock
Next ==
    \/ ApiCall(1)
    \/ CallStep(1)
    \/ \E th \in Threads : RenderStep(th)
    \/ Advance

Spec == Init /\ [][Next]_vars

\* the same, with exceptions inside render ticks
NextFault ==
    \/ Next
    \/ \E th \in Threads : Raise(th)

SpecFault == Init /\ [][NextFault]_vars

\* play_action called from several requests at once (trigger_animation runs
\* outside the event loop), the render threads and the clock
MaxPlayCalls == 2

PlayCall(c) ==
    /\ ncalls < MaxPlayCalls
    /\ \E frames \in ActionClips, loop \in BOOLEAN : PlayAction(c, frames, loop)

NextPlay ==
    \/ \E c \in Callers : PlayCall(c)
    \/ \E c \in Callers : EnsureThread(c)
    \/ \E c \in Callers : StartThread(c)
    \/ \E th \in Threads : RenderStep(th)
    \/ Advance

SpecPlay == Init /\ [][NextPlay]_vars

\* Playback left alone: non-looping actions only, no idle, one caller, the render
\* threads and the clock, all scheduled fairly.  A clip is played only while
\* the clock can still reach its end.
LiveClips == { << >>, << Frame(0, Map1("Joy", 400), EmptyMap) >>, ActNod }

LivePlay(c) ==
    /\ now + 100 <= MaxSteps * 100
    /\ \E frames \in LiveClips : PlayAction(c, frames, FALSE)

NextLive ==
    \/ LivePlay(1)
    \/ EnsureThread(1)
    \/ StartThread(1)
    \/ \E th \in Threads : RenderStep(th)
    \/ Advance

\* a tick that finds something playing, samples no frame and removes no
\* action: the loop body changes nothing and the thread goes round again
TickSpins(th) ==
    /\ rt[th].pc = "tick"
    /\ running
    /\ idle_active \/ active_actions # << >>
    /\ LET sm == _get_active_action_frames(active_actions, now)
       IN  /\ sm.actions = active_actions
           /\ Falsy(_merge_multiple_actions(IdleSampleOf(th).frame, sm.frames))

\* the steps of a render thread after the sampling section
RenderRest(th) ==
    \/ CleanupSend(th)
    \/ Reset(th)
    \/ ResetClear(th)
    \/ ClearRunning(th)

\* weak fairness of every step of the callers, the render threads and the
\* clock; for Tick it is written out, a tick being enabled (able to change the
\* state) when the thread is at the top of its loop and the tick does not spin
LiveFair ==
    /\ WF_vars(Advance)
    /\ WF_vars(EnsureThread(1))
    /\ WF_vars(StartThread(1))
    /\ \A th \in Threads :
         /\ WF_vars(RenderRest(th))
         /\ ([]<>(~(rt[th].pc = "tick" /\ ~TickSpins(th)))) \/ ([]<><<Tick(th)>>_vars)

SpecLive == Init /\ [][NextLive]_vars /\ LiveFair

----------------------------------------------------------------------------
(* The sender, the rest pose store and the pure helpers, applied to inputs   *)
(* drawn from bounded sets.  fn records the latest application.              *)

\* every dict with keys among names and values among vals
MapsOver(names, vals) == UNION { [d -> vals] : d \in SUBSET names }

\* inputs of the sanitizer: around the 0.05 threshold, inside and outside [0,1]
FnClampInputs ==
    MapsOver({ "Joy", "Angry", "EyeBlinkLeft", "Sorrow" },
             { -500, 0, 50, 60, 500, 1000, 1500 })

FnBsMaps ==
    { m \in MapsOver({ "Joy", "Blink" }, { -500, 0, 700, 1500 }) :
        "Blink" \in DOMAIN m => m["Blink"] \in { 0, 700 } }

\* a recorded bone that carries a position
BoneMoved == [pos |-> << 0, One, 0 >>, rot |-> QJ]

FnBoneMaps ==
    { m \in MapsOver({ "Head", "Hips" },
                     { Bone(_quat_identity), Bone(QJ), Bone(QK), Bone(QTwice), BoneMoved }) :
        /\ "Head" \in DOMAIN m => m["Head"].rot # QK
        /\ "Hips" \in DOMAIN m => m["Hips"] \in { Bone(QK), Bone(_quat_identity) } }

FnFrames == { Frame(0, bs, bones) : bs \in FnBsMaps, bones \in FnBoneMaps }

FnRestInputs == { CustomFile.bones, Map1("Head", Bone(QJ)) }

senderUnchanged ==
    UNCHANGED << now, idle_frames, idle_active, idle_name, idle_gen, active_actions,
                 dirty_blendshapes, dirty_bones, running, thread, rt, calls, ncalls,
                 exp, stopped, recorder, osc, host, presets >>

\* _clamp_blendshapes(bs)
FnClamp ==
    /\ fn = NoFn /\ wire = NoWire
    /\ \E bs \in FnClampInputs :
         fn' = [op |-> "clamp", in |-> << bs >>, out |-> _clamp_blendshapes(bs)]
    /\ wire' = NoWire
    /\ senderUnchanged
    /\ UNCHANGED << rest_pose, rest_file >>

\* _merge_multiple_actions(idle, [action]), that is _merge_layers(idle, action)
FnMerge ==
    /\ fn = NoFn /\ wire = NoWire
    /\ \E idle \in FnFrames, action \in FnFrames :
         fn' = [op |-> "merge", in |-> << idle, action >>,
                out |-> _merge_multiple_actions(idle, << action >>)]
    /\ wire' = NoWire
    /\ senderUnchanged
    /\ UNCHANGED << rest_pose, rest_file >>

\* sampled frames for a merge of several layers: deltas inside and outside
\* [0,1], with and without a bone
FoldFrames ==
    { Frame(0, Map1("Joy", v), b) :
        v \in { -300, 400, 700, 1500 },
        b \in { EmptyMap, Map1("Head", Bone(QJ)), Map1("Head", Bone(QTwice)) } }

FoldIdles ==
    { NoneFrame,
      Frame(0, Map1("Joy", 0), EmptyMap),
      Frame(0, Map2("Joy", 500, "Blink", 700), Map1("Head", Bone(QK))) }

\* _merge_multiple_actions(idle, [first, second])
FnMergeMany ==
    /\ fn = NoFn /\ wire = NoWire
    /\ \E idle \in FoldIdles, first \in FoldFrames, second \in FoldFrames :
         fn' = [op |-> "merge_many", in |-> << idle, << first, second >> >>,
                out |-> _merge_multiple_actions(idle, << first, second >>)]
    /\ wire' = NoWire
    /\ senderUnchanged
    /\ UNCHANGED << rest_pose, rest_file >>

\* VMCSender.send_frame(frame, include_bones)
FnSendFrame ==
    /\ fn = NoFn /\ wire = NoWire
    /\ \E frame \in FnFrames, include_bones \in BOOLEAN :
         LET rp == get_rest_pose(rest_pose, rest_file)
         IN  /\ rest_pose' = IF DictCopy(rp).same_dict /\ include_bones
                              THEN Update(rp, BonesOf(frame))
                              ELSE rp
             /\ wire' = [by |-> "send_frame",
                         msgs |-> send_frame(frame, include_bones, rp)]
             /\ fn' = [op |-> "send_frame", in |-> << frame, include_bones, rp >>,
                       out |-> << >>]
    /\ senderUnchanged
    /\ UNCHANGED rest_file

\* VMCSender.send_blendshapes(blendshapes)
FnSendBlendshapes ==
    /\ fn = NoFn /\ wire = NoWire
    /\ \E bs \in FnBsMaps :
         /\ wire' = [by |-> "send_blendshapes", msgs |-> send_blendshapes(bs)]
         /\ fn' = [op |-> "send_blendshapes", in |-> << bs >>, out |-> << >>]
    /\ senderUnchanged
    /\ UNCHANGED << rest_pose, rest_file >>

\* apply_rest_pose()
FnApplyRestPose ==
    /\ fn = NoFn /\ wire = NoWire
    /\ rest_pose' = get_rest_pose(rest_pose, rest_file)
    /\ wire' = [by |-> "apply_rest_pose", msgs |-> apply_rest_pose(rest_pose')]
    /\ fn' = [op |-> "apply_rest_pose", in |-> << rest_pose' >>, out |-> << >>]
    /\ senderUnchanged
    /\ UNCHANGED rest_file

\* set_rest_pose(bones)
FnSetRestPose ==
    /\ fn = NoFn /\ wire = NoWire
    /\ \E bones \in FnRestInputs :
         /\ rest_pose' = StripHips(bones)
         /\ rest_file' = [exists |-> TRUE, bones |-> StripHips(bones)]
         /\ fn' = [op |-> "set_rest_pose", in |-> << bones >>, out |-> << >>]
    /\ wire' = NoWire
    /\ senderUnchanged

\* reset_rest_pose()
FnResetRestPose ==
    /\ fn = NoFn /\ wire = NoWire
    /\ rest_pose' = _DEFAULT_REST_POSE
    /\ rest_file' = NoFile
    /\ fn' = [op |-> "reset_rest_pose", in |-> << >>, out |-> << >>]
    /\ wire' = NoWire
    /\ senderUnchanged

\* the application has returned; the next one starts from a clean record
FnReturn ==
    /\ fn # NoFn
    /\ fn' = NoFn
    /\ wire' = NoWire
    /\ senderUnchanged
    /\ UNCHANGED << rest_pose, rest_file >>

InitFn ==
    /\ now = 0
    /\ PlayerInit
    /\ rest_file \in RestFiles
    /\ fn = NoFn

NextFn ==
    \/ FnClamp
    \/ FnMerge
    \/ FnSendFrame
    \/ FnSendBlendshapes
    \/ FnApplyRestPose
    \/ FnSetRestPose
    \/ FnResetRestPose
    \/ FnReturn

SpecFn == InitFn /\ [][NextFn]_vars

----------------------------------------------------------------------------
(* Clip functions: convert_to_relative and the idle sampler, applied to      *)
(* clips drawn from bounded sets.                                            *)

\* variant: the delta rotation taken as ref * rot, without the inverse
convert_to_relative_noinverse(frames) ==
    IF frames = << >> THEN frames
    ELSE LET ref == frames[1]
         IN  [k \in 1..Len(frames) |->
                Frame(frames[k].t,
                      [name \in DOMAIN frames[k].blendshapes \cup DOMAIN ref.blendshapes |->
                          Get(frames[k].blendshapes, name, 0) - Get(ref.blendshapes, name, 0)],
                      [name \in DOMAIN frames[k].bones \cup DOMAIN ref.bones |->
                          Bone(_quat_normalize(_quat_multiply(
                                  RotOf(ref.bones, name),
                                  RotOf(frames[k].bones, name))))])]

\* convert_to_relative: deltas from frame 0
convert_to_relative(frames) ==
    IF frames = << >> THEN frames
    ELSE LET ref == frames[1]
             ref_bs == ref.blendshapes
             ref_bones == ref.bones
         IN  [k \in 1..Len(frames) |->
                LET fbs == frames[k].blendshapes
                    fbones == frames[k].bones
                IN  Frame(frames[k].t,
                          [name \in DOMAIN fbs \cup DOMAIN ref_bs |->
                              Get(fbs, name, 0) - Get(ref_bs, name, 0)],
                          [name \in DOMAIN fbones \cup DOMAIN ref_bones |->
                              Bone(_quat_normalize(_quat_multiply(
                                      _quat_inverse(RotOf(ref_bones, name)),
                                      RotOf(fbones, name))))])]

\* a unit rotation off the axes: 0.6 j + 0.8
QTilt == << 0, 6000, 0, 8000 >>

\* absolute frames as a recording holds them
AbsFrames(t) ==
    { Frame(t, bs, bones) :
        bs \in MapsOver({ "Joy", "Blink" }, { 0, 300, 1000 }),
        bones \in MapsOver({ "Head" },
                           { Bone(_quat_identity), Bone(QJ), Bone(QTilt), Bone(QTwice) }) }

\* absolute clips of one or two frames, and the empty clip
AbsClips ==
    { << >> } \cup { << f >> : f \in AbsFrames(0) }
              \cup { << f, g >> : f \in AbsFrames(0), g \in AbsFrames(100) }

\* convert_to_relative(frames)
FnConvert ==
    /\ fn = NoFn /\ wire = NoWire
    /\ \E frames \in AbsClips :
         fn' = [op |-> "convert_to_relative", in |-> << frames >>,
                out |-> convert_to_relative(frames)]
    /\ wire' = NoWire
    /\ senderUnchanged
    /\ UNCHANGED << rest_pose, rest_file >>

\* absolute idle clips of duration 100, 1000 and 2000 ms, and one whose first
\* frame is not at 0
IdleOf(D) ==
    << Frame(0, Map1("Joy", 200), Map1("Head", Bone(_quat_identity))),
       Frame(D \div 2, Map1("Joy", 800), Map1("Head", Bone(QTilt))),
       Frame(D, Map1("Joy", 400), Map1("Head", Bone(QJ))) >>

IdleInputs ==
    { IdleOf(100), IdleOf(1000), IdleOf(2000),
      << Frame(10, Map1("Joy", 200), EmptyMap), Frame(100, Map1("Joy", 800), EmptyMap) >> }

\* elapsed times in ms since the idle epoch, around the crossfade windows
IdleTimes ==
    { 0, 35, 70, 71, 85, 99, 100, 170, 171, 700, 701, 850, 999, 1000, 1500, 1501,
      1750, 1999, 2000, 3501 }

\* what _get_idle_frame computes at one elapsed time
IdleSample(frames, elapsed_total_ms) ==
    LET D == frames[Len(frames)].t
        e == elapsed_total_ms % D
    IN  [ e |-> e,
          current |-> _find_frame(frames, e),
          blend |-> IdleBlend(frames, e),
          frame |-> _get_idle_frame(frames, elapsed_total_ms).frame ]

\* _get_idle_frame at two elapsed times
FnIdleFrame ==
    /\ fn = NoFn /\ wire = NoWire
    /\ \E frames \in IdleInputs, e1 \in IdleTimes, e2 \in IdleTimes :
         fn' = [op |-> "_get_idle_frame", in |-> << frames, e1, e2 >>,
                out |-> << IdleSample(frames, e1), IdleSample(frames, e2) >>]
    /\ wire' = NoWire
    /\ senderUnchanged
    /\ UNCHANGED << rest_pose, rest_file >>

\* a recorded clip: its first frame is later than the start of the recording
ActLate ==
    << Frame(12, Map1("Joy", 100), EmptyMap),
       Frame(50, Map1("Joy", 300), EmptyMap),
       Frame(100, Map1("Joy", 0), EmptyMap) >>

\* a single frame at t = 0
ActPose == << Frame(0, Map1("Joy", 400), EmptyMap) >>

SampleClips == { ActSorrow, ActNod, ActLate, ActPose, << >> }

\* perf_counter() at the tick; every action was started at 0
SampleTimes == { 0, 5, 50, 99, 100, 150, 200, 250 }

ActionOf(frames, loop, id) ==
    [frames |-> frames, loop |-> loop, start_time |-> 0, id |-> id]

\* _get_active_action_frames on a list of one or two actions
FnSampleActions ==
    /\ fn = NoFn /\ wire = NoWire
    /\ \E f1 \in SampleClips, l1 \in BOOLEAN, f2 \in SampleClips, l2 \in BOOLEAN,
          n \in { 1, 2 }, t \in SampleTimes :
         LET actions == IF n = 1 THEN << ActionOf(f1, l1, 1) >>
                        ELSE << ActionOf(f1, l1, 1), ActionOf(f2, l2, 2) >>
         IN  /\ (n = 1 => (f2 = << >> /\ ~l2))
             /\ fn' = [op |-> "_get_active_action_frames", in |-> << actions, t >>,
                       out |-> _get_active_action_frames(actions, t)]
    /\ wire' = NoWire
    /\ senderUnchanged
    /\ UNCHANGED << rest_pose, rest_file >>

\* clips sorted by t, with ties, of one to three frames; frame i carries the
\* value i in Joy so that frames of equal t can be told apart
SortedTimes ==
    { ts \in UNION { [1..n -> { 0, 10, 20 }] : n \in 1..3 } :
        \A i \in 1..(Len(ts) - 1) : ts[i] <= ts[i + 1] }

SortedClip(ts) == [i \in 1..Len(ts) |-> Frame(ts[i], Map1("Joy", i * 100), EmptyMap)]

FindTargets == { 0, 5, 10, 15, 20, 25 }

\* _find_frame(frames, target_ms)
FnFindFrame ==
    /\ fn = NoFn /\ wire = NoWire
    /\ \E ts \in SortedTimes, target_ms \in FindTargets :
         fn' = [op |-> "_find_frame", in |-> << SortedClip(ts), target_ms >>,
                out |-> _find_frame(SortedClip(ts), target_ms)]
    /\ wire' = NoWire
    /\ senderUnchanged
    /\ UNCHANGED << rest_pose, rest_file >>

\* play_preset followed by one tick: the clip converted, frame k of the
\* result merged as action over the clip's first frame as idle
FnRoundTrip ==
    /\ fn = NoFn /\ wire = NoWire
    /\ \E frames \in AbsClips \ { << >> } :
         \E k \in 1..Len(frames) :
            fn' = [op |-> "round_trip", in |-> << frames, k >>,
                   out |-> [relative |-> convert_to_relative(frames),
                            merged |-> _merge_layers(frames[1],
                                                     convert_to_relative(frames)[k])]]
    /\ wire' = NoWire
    /\ senderUnchanged
    /\ UNCHANGED << rest_pose, rest_file >>

NextClip ==
    \/ FnConvert
    \/ FnFindFrame
    \/ FnRoundTrip
    \/ FnIdleFrame
    \/ FnMergeMany
    \/ FnSampleActions
    \/ FnReturn

SpecClip == Init /\ [][NextClip]_vars

----------------------------------------------------------------------------
(* VMCRecorder: the OSC listener, its three message handlers and the        *)
(* recording calls.  A Val or Pos handler is one locked section; an Apply    *)
(* handler tests _recording and the rate cap outside the lock and commits    *)
(* the frame inside it, so it is two steps.                                  *)

\* everything but the clock and the recorder
mixerUnchanged ==
    UNCHANGED << idle_frames, idle_active, idle_name, idle_gen, active_actions,
                 dirty_blendshapes, dirty_bones, running, thread, rt, calls, ncalls,
                 rest_pose, rest_file, wire, exp, stopped, fn, host, presets >>

\* variant: no rate cap
rate_cap_off(t, last_sample_time) == FALSE

\* now - self._last_sample_time < self._sample_interval, with times in ms and
\* the interval 1/30 s
RateCapped(t, last_sample_time) == 30 * (t - last_sample_time) < 1000

\* the test of _on_blendshape_apply before the lock
ApplyPasses(rec, t) == rec.recording /\ ~RateCapped(t, rec.last_sample_time)

\* variant: the frame refers to the snapshot dict itself
bs_snapshot_alias(bs) == [same_dict |-> TRUE, map |-> bs]

\* dict(self._current_blendshapes): a new dict with the same items
BsSnapshot(bs) == [same_dict |-> FALSE, map |-> bs]

\* the locked section of _on_blendshape_apply, for the time read before it
CommitFrame(rec, t) ==
    [rec EXCEPT !.frames = Append(@, Frame(t - rec.start_time,
                                            BsSnapshot(rec.current_blendshapes).map,
                                            rec.current_bones)),
                !.last_sample_time = t]

\* the frames that hold the snapshot dict itself, after a commit
AliasedAfter(rec, aliased) ==
    IF BsSnapshot(rec.current_blendshapes).same_dict
    THEN aliased \cup { Len(rec.frames) + 1 }
    ELSE aliased

\* self._current_blendshapes[name] = value, seen through every frame that
\* holds that dict
WriteThrough(frames, aliased, bs) ==
    [i \in 1..Len(frames) |-> IF i \in aliased
                              THEN [frames[i] EXCEPT !.blendshapes = bs]
                              ELSE frames[i]]

\* variant: the list object itself is handed out
list_itself(frames) == [same_list |-> TRUE, frames |-> frames]

\* list(self._frames): a new list with the same elements
ListCopy(frames) == [same_list |-> FALSE, frames |-> frames]

\* messages the host sends
RecValInputs == { << "Joy", 300 >>, << "Joy", 900 >> }
RecBoneInputs == { << "Head", QJ >> }

Listening == \E i \in 1..Len(osc.sockets) : osc.sockets[i].serving

\* bounds of a recorder run: messages handled, API calls, length in ms
MaxArrivals == 3
MaxRecCalls == 3
MaxRecTime == 80
RecTimeSteps == { 40 }

CanArrive == Listening /\ osc.arrivals < MaxArrivals

\* _on_blendshape
OnBlendshape ==
    /\ CanArrive
    /\ \E m \in RecValInputs :
         /\ LET bs == Update(recorder.current_blendshapes, Map1(m[1], m[2]))
            IN  recorder' = [recorder EXCEPT
                               !.current_blendshapes = bs,
                               !.frames = WriteThrough(@, osc.aliased, bs)]
         /\ osc' = [osc EXCEPT !.arrivals = @ + 1, !.last = "val", !.msg = m]
    /\ UNCHANGED now
    /\ mixerUnchanged

\* _on_bone
OnBone ==
    /\ CanArrive
    /\ \E m \in RecBoneInputs :
         /\ recorder' = [recorder EXCEPT
                           !.current_bones = Update(@, Map1(m[1], Bone(m[2])))]
         /\ osc' = [osc EXCEPT !.arrivals = @ + 1, !.last = "pos", !.msg = m]
    /\ UNCHANGED now
    /\ mixerUnchanged

\* _on_blendshape_apply up to the lock: the _recording test and the rate cap
ApplyBegin(h) ==
    /\ CanArrive
    /\ osc.h[h].pc = "none"
    /\ osc' = [osc EXCEPT !.arrivals = @ + 1,
                          !.last = "apply",
                          !.h[h] = IF ApplyPasses(recorder, now)
                                   THEN [pc |-> "commit", now |-> now]
                                   ELSE NoHandler]
    /\ UNCHANGED << now, recorder >>
    /\ mixerUnchanged

\* _on_blendshape_apply: the locked section
ApplyCommit(h) ==
    /\ osc.h[h].pc = "commit"
    /\ recorder' = CommitFrame(recorder, osc.h[h].now)
    /\ osc' = [osc EXCEPT !.h[h] = NoHandler,
                          !.last = "commit",
                          !.aliased = AliasedAfter(recorder, @),
                          !.returned = IF @.same_list
                                       THEN [@ EXCEPT !.frames = recorder'.frames]
                                       ELSE @]
    /\ UNCHANGED now
    /\ mixerUnchanged

CanRecCall(c) == osc.api[c].pc = "idle" /\ osc.ncalls < MaxRecCalls

\* variant: start_server without the test of self._server
start_server_unguarded(c) ==
    /\ CanRecCall(c)
    /\ osc' = [osc EXCEPT !.ncalls = @ + 1,
                          !.last = "start_server",
                          !.api[c] = [pc |-> "bind", server |-> 0]]
    /\ UNCHANGED << now, recorder >>
    /\ mixerUnchanged

\* start_server: the test of self._server
StartServerCheck(c) ==
    /\ CanRecCall(c)
    /\ osc' = [osc EXCEPT !.ncalls = @ + 1,
                          !.last = "start_server",
                          !.api[c] = IF recorder.server # 0 THEN NoRecCall
                                     ELSE [pc |-> "bind", server |-> 0]]
    /\ UNCHANGED << now, recorder >>
    /\ mixerUnchanged

\* start_server: the server is constructed, which binds the port.  When the
\* port is already bound the bind raises or, with address reuse, succeeds.
StartServerBind(c) ==
    /\ osc.api[c].pc = "bind"
    /\ \/ /\ recorder' = [recorder EXCEPT !.server = Len(osc.sockets) + 1]
          /\ osc' = [osc EXCEPT
                       !.sockets = Append(@, [serving |-> FALSE]),
                       !.last = "bind",
                       !.api[c] = [pc |-> "thread", server |-> Len(osc.sockets) + 1]]
       \/ /\ osc.sockets # << >>
          /\ osc' = [osc EXCEPT !.raised = TRUE, !.last = "raise",
                                !.api[c] = NoRecCall]
          /\ UNCHANGED recorder
    /\ UNCHANGED now
    /\ mixerUnchanged

\* start_server: the serving thread is created and started
StartServerThread(c) ==
    /\ osc.api[c].pc = "thread"
    /\ recorder' = [recorder EXCEPT !.server_thread = recorder.server]
    /\ osc' = [osc EXCEPT !.sockets[recorder.server].serving = TRUE,
                          !.last = "serve",
                          !.api[c] = NoRecCall]
    /\ UNCHANGED now
    /\ mixerUnchanged

\* start_recording
StartRecording(c) ==
    /\ CanRecCall(c)
    /\ recorder' = [recorder EXCEPT !.frames = << >>,
                                    !.current_blendshapes = EmptyMap,
                                    !.current_bones = EmptyMap,
                                    !.start_time = now,
                                    !.last_sample_time = 0,
                                    !.recording = TRUE]
    /\ osc' = [osc EXCEPT !.ncalls = @ + 1, !.last = "start_recording",
                          !.aliased = {},
                          !.returned = [@ EXCEPT !.same_list = FALSE]]
    /\ UNCHANGED now
    /\ mixerUnchanged

\* VMCRecorder.frame_count
frame_count == Len(recorder.frames)

\* variant: stop_recording empties the frame list after copying it
stop_recording_clears(c) ==
    /\ CanRecCall(c)
    /\ recorder' = [recorder EXCEPT !.recording = FALSE, !.frames = << >>]
    /\ osc' = [osc EXCEPT !.ncalls = @ + 1, !.last = "stop_recording",
                          !.has_returned = TRUE,
                          !.returned = ListCopy(recorder.frames)]
    /\ UNCHANGED now
    /\ mixerUnchanged

\* stop_recording: returns a copy of the frame list
StopRecording(c) ==
    /\ CanRecCall(c)
    /\ recorder' = [recorder EXCEPT !.recording = FALSE]
    /\ osc' = [osc EXCEPT !.ncalls = @ + 1, !.last = "stop_recording",
                          !.has_returned = TRUE,
                          !.returned = ListCopy(recorder.frames)]
    /\ UNCHANGED now
    /\ mixerUnchanged

\* the process has been up for a while when the recorder is first used
RecEpochs == { 1000 }

\* time.perf_counter() moves on
RecAdvance ==
    /\ \E d \in RecTimeSteps :
         /\ \E e \in RecEpochs : now + d <= e + MaxRecTime
         /\ now' = now + d
    /\ osc' = [osc EXCEPT !.last = "time"]
    /\ UNCHANGED recorder
    /\ mixerUnchanged

InitRec ==
    /\ now \in RecEpochs
    /\ PlayerInit
    /\ rest_file = NoFile
    /\ fn = NoFn

NextRec ==
    \/ OnBlendshape
    \/ OnBone
    \/ \E h \in Handlers : ApplyBegin(h) \/ ApplyCommit(h)
    \/ \E c \in RecCallers :
         \/ StartServerCheck(c)
         \/ StartServerBind(c)
         \/ StartServerThread(c)
    \/ StartRecording(1)
    \/ StopRecording(1)
    \/ RecAdvance

SpecRec == InitRec /\ [][NextRec]_vars

----------------------------------------------------------------------------
(* The recorder fed at a fixed rate: the host sends one Apply every 10 ms.   *)

\* the number of Apply messages of the run and their period in ms
RateMessages == 100
RatePeriods == { 10 }

\* POST /record/start: start_server, then start_recording
RateRequest ==
    /\ ~recorder.recording
    /\ osc.arrivals = 0
    /\ recorder' = [recorder EXCEPT
                      !.server = IF recorder.server # 0 THEN @ ELSE Len(osc.sockets) + 1,
                      !.server_thread = IF recorder.server # 0 THEN @
                                        ELSE Len(osc.sockets) + 1,
                      !.frames = << >>,
                      !.current_blendshapes = EmptyMap,
                      !.current_bones = EmptyMap,
                      !.start_time = now,
                      !.last_sample_time = 0,
                      !.recording = TRUE]
    /\ osc' = [osc EXCEPT
                 !.sockets = IF recorder.server # 0 THEN @
                             ELSE Append(@, [serving |-> TRUE]),
                 !.aliased = {},
                 !.last = "start_recording"]
    /\ UNCHANGED now
    /\ mixerUnchanged

\* the next Apply arrives one period after the previous one (the first within
\* one period of the start) and its handler runs to the end
RateApply ==
    /\ recorder.recording
    /\ Listening
    /\ osc.arrivals < RateMessages
    /\ \E d \in RatePeriods, first \in 0..9 :
         /\ now' = IF osc.arrivals = 0 THEN now + first ELSE now + d
         /\ recorder' = IF ApplyPasses(recorder, now')
                        THEN CommitFrame(recorder, now')
                        ELSE recorder
    /\ osc' = [osc EXCEPT !.arrivals = @ + 1, !.last = "apply",
                          !.aliased = IF ApplyPasses(recorder, now')
                                      THEN AliasedAfter(recorder, @) ELSE @]
    /\ mixerUnchanged

NextRate ==
    \/ RateRequest
    \/ RateApply

SpecRate == InitRec /\ [][NextRate]_vars

----------------------------------------------------------------------------
(* The preset store: a directory of <name>.json files.  One step is one     *)
(* call; fn holds the call, its arguments and what it returned or raised.   *)

PresetNames == { "smile", "nod" }
PresetModes == { "absolute", "relative" }
StoreClips == { << >>, ActPose, ActNod }

\* what a call gives back: a value, or the exception it raised
Returned(value) == [raised |-> "none", value |-> value]
Raised(exception) == [raised |-> exception, value |-> NoneFrame]

\* json.dumps(preset, ...) written to the file, and json.loads of the text
JsonDumps(preset) == [text |-> preset]
JsonLoads(file) == file.text

PresetExists(name) == name \in DOMAIN presets.files

\* the files of the directory without one
Unlink(files, name) == [n \in DOMAIN files \ { name } |-> files[n]]

storeUnchanged ==
    UNCHANGED << now, idle_frames, idle_active, idle_name, idle_gen, active_actions,
                 dirty_blendshapes, dirty_bones, running, thread, rt, calls, ncalls,
                 rest_pose, rest_file, wire, exp, stopped, recorder, osc, host >>

\* save_preset(name, frames, mode)
SavePreset ==
    /\ fn = NoFn
    /\ \E name \in PresetNames, frames \in StoreClips, mode \in PresetModes :
         LET preset == [name |-> name, mode |-> mode,
                        duration_ms |-> IF frames # << >> THEN frames[Len(frames)].t
                                        ELSE 0,
                        frame_count |-> Len(frames), frames |-> frames]
         IN  /\ presets' = [dir |-> TRUE,
                            files |-> Update(presets.files,
                                             Map1(name, JsonDumps(preset)))]
             /\ fn' = [op |-> "save_preset", in |-> << name, frames, mode >>,
                       out |-> Returned(name)]
    /\ storeUnchanged

\* load_preset(name)
LoadPreset ==
    /\ fn = NoFn
    /\ \E name \in PresetNames :
         fn' = [op |-> "load_preset", in |-> << name >>,
                out |-> IF PresetExists(name)
                        THEN Returned(JsonLoads(presets.files[name]))
                        ELSE Raised("FileNotFoundError")]
    /\ UNCHANGED presets
    /\ storeUnchanged

\* variant: delete_preset raises for a missing file
delete_preset_raises ==
    /\ fn = NoFn
    /\ \E name \in PresetNames :
         /\ presets' = [presets EXCEPT !.files = Unlink(@, name)]
         /\ fn' = [op |-> "delete_preset", in |-> << name >>,
                   out |-> IF PresetExists(name) THEN Returned(TRUE)
                           ELSE Raised("FileNotFoundError")]
    /\ storeUnchanged

\* delete_preset(name)
DeletePreset ==
    /\ fn = NoFn
    /\ \E name \in PresetNames :
         IF PresetExists(name)
         THEN /\ presets' = [presets EXCEPT !.files = Unlink(@, name)]
              /\ fn' = [op |-> "delete_preset", in |-> << name >>,
                        out |-> Returned(TRUE)]
         ELSE /\ UNCHANGED presets
              /\ fn' = [op |-> "delete_preset", in |-> << name >>,
                        out |-> Returned(FALSE)]
    /\ storeUnchanged

\* the caller goes on
StoreReturn ==
    /\ fn # NoFn
    /\ fn' = NoFn
    /\ UNCHANGED presets
    /\ storeUnchanged

NextStore ==
    \/ SavePreset
    \/ LoadPreset
    \/ DeletePreset
    \/ StoreReturn

SpecStore == Init /\ [][NextStore]_vars

----------------------------------------------------------------------------
(* Properties                                                               *)

ValAddr == "/VMC/Ext/Blend/Val"
BoneAddr == "/VMC/Ext/Bone/Pos"

\* the latest send carries a Val message for name with this value
WireVal(name, value) ==
    \E i \in 1..Len(wire.msgs) :
        /\ wire.msgs[i].addr = ValAddr
        /\ wire.msgs[i].name = name
        /\ wire.msgs[i].value = value

\* the latest send carries a bone message for name with this rotation
WireBone(name, rot) ==
    \E i \in 1..Len(wire.msgs) :
        /\ wire.msgs[i].addr = BoneAddr
        /\ wire.msgs[i].name = name
        /\ wire.msgs[i].rot = rot

\* C1: when a non-looping action started by play_action expires with no idle
\* active and no other action active, the next frame emitted carries 0.0 for
\* every blendshape name of the clip (so a frame is emitted whenever the clip
\* names a blendshape), and after that emission both dirty-name sets are empty.
C1_DirtyBlendshapesZeroed ==
    /\ exp.phase = "emitted" => \A n \in exp.bs : WireVal(n, 0)
    /\ exp.phase = "silent" => exp.bs = {}
    /\ exp.phase \in { "done", "silent" } =>
          dirty_blendshapes = {} /\ dirty_bones = {}

\* C2: in the same situation, the next frame emitted carries the identity
\* rotation for every bone name of the clip except Hips.
C2_BonesIdentityAfterExpiry ==
    exp.phase = "emitted" =>
        \A n \in exp.bones \ { "Hips" } : WireBone(n, << 0, 0, 0, 10000 >>)

\* C3: once play_action or set_idle has returned, a render thread is running
\* for as long as idle is active or the active-action list is non-empty.
C3_ThreadWhilePlaying ==
    (calls[1].pc = "idle" /\ is_playing) => \E th \in Threads : ~Dead(th)

\* C4: an exception raised inside a render tick does not end the render loop,
\* and the player is never left with its running flag set and no live thread.
C4_ErrorContained ==
    running => \E th \in Threads : ~Dead(th)

\* C5: stop() called while the render thread is running with active actions
\* leads to a reset frame that sets to 0.0 every blendshape name in the dirty
\* set, in the idle clip and in the actions active when stop() was called.
C5_StopResetsNames ==
    (stopped.phase = "returned" /\ stopped.armed) =>
        /\ stopped.reset = "frame"
        /\ wire.by = "reset"
        /\ \A n \in stopped.names : WireVal(n, 0)

\* C6: no bone message sent by send_frame or apply_rest_pose names Hips,
\* whatever the rest pose and the frame contain (every emission of the mixer is
\* a send_frame call, so the property is stated for all that is on the wire).
C6_NoHipsOnWire ==
    \A i \in 1..Len(wire.msgs) :
        wire.msgs[i].addr = BoneAddr => wire.msgs[i].name # "Hips"

C6_Witness ==
    /\ wire.by = "send_frame"
    /\ fn.in[2]
    /\ "Hips" \in DOMAIN fn.in[1].bones
    /\ "Hips" \in DOMAIN fn.in[3]
    /\ WireBone("Head", fn.in[3]["Head"].rot)

\* C7: the sanitizer's output has every value in [0,1], and so has every Val
\* message send_frame or send_blendshapes emits.
C7_ValuesInUnitRange ==
    /\ fn.op = "clamp" =>
          \A k \in DOMAIN fn.out : 0 <= fn.out[k] /\ fn.out[k] <= 1000
    /\ wire.by \in { "send_frame", "send_blendshapes" } =>
          \A i \in 1..Len(wire.msgs) :
              wire.msgs[i].addr = ValAddr =>
                  0 <= wire.msgs[i].value /\ wire.msgs[i].value <= 1000

C7_Witness ==
    /\ wire.by = "send_frame"
    /\ "Joy" \in DOMAIN fn.in[1].blendshapes
    /\ fn.in[1].blendshapes["Joy"] = 1500
    /\ WireVal("Joy", 1000)

\* the value v clamped to [0,1], written out for the properties
Clamped(v) == IF v < 0 THEN 0 ELSE IF v > 1000 THEN 1000 ELSE v

\* C8: with E = max(Joy, Angry) after clamping (missing keys count as 0), if
\* E > 0.05 every eye-blink name present has output min(clamped value,
\* max(0, 1 - 0.7*E)); otherwise it is only clamped; other names are only
\* clamped in both cases.
C8_EyeConflictRule ==
    fn.op = "clamp" =>
        LET bs == fn.in[1]
            joy == IF "Joy" \in DOMAIN bs THEN Clamped(bs["Joy"]) ELSE 0
            angry == IF "Angry" \in DOMAIN bs THEN Clamped(bs["Angry"]) ELSE 0
            E == IF joy >= angry THEN joy ELSE angry
            cap == IF 10000 - 7 * E >= 0 THEN (10000 - 7 * E) \div 10 ELSE 0
        IN  /\ DOMAIN fn.out = DOMAIN bs
            /\ \A k \in DOMAIN bs :
                 fn.out[k] =
                    IF E > 50 /\ k \in { "Blink", "Blink_L", "Blink_R", "BlinkLeft",
                                         "BlinkRight", "EyeBlinkLeft", "EyeBlinkRight",
                                         "eyeBlinkLeft", "eyeBlinkRight" }
                    THEN (IF Clamped(bs[k]) <= cap THEN Clamped(bs[k]) ELSE cap)
                    ELSE Clamped(bs[k])

\* Joy = 1.0 with EyeBlinkLeft = 1.0 gives EyeBlinkLeft = 0.3
C8_Witness ==
    /\ fn.op = "clamp"
    /\ DOMAIN fn.in[1] = { "Joy", "EyeBlinkLeft" }
    /\ fn.in[1]["Joy"] = 1000
    /\ fn.in[1]["EyeBlinkLeft"] = 1000
    /\ fn.out["EyeBlinkLeft"] = 300
    /\ fn.out["Joy"] = 1000

\* C9: merging an idle frame with one action frame gives, for every blendshape
\* name in the union of the two maps, clamp(idle + delta, 0, 1), a name missing
\* on either side counting as 0.
C9_ClampedSummation ==
    fn.op = "merge" =>
        LET i_bs == fn.in[1].blendshapes
            a_bs == fn.in[2].blendshapes
        IN  /\ DOMAIN fn.out.blendshapes = DOMAIN i_bs \cup DOMAIN a_bs
            /\ \A n \in DOMAIN i_bs \cup DOMAIN a_bs :
                 fn.out.blendshapes[n] =
                    Clamped((IF n \in DOMAIN i_bs THEN i_bs[n] ELSE 0)
                            + (IF n \in DOMAIN a_bs THEN a_bs[n] ELSE 0))

C9_Witness ==
    /\ fn.op = "merge"
    /\ fn.in[1].blendshapes = [n \in { "Joy" } |-> 700]
    /\ fn.in[2].blendshapes = [n \in { "Joy", "Blink" } |-> IF n = "Joy" THEN 1500 ELSE 700]
    /\ fn.out.blendshapes = [n \in { "Joy", "Blink" } |-> IF n = "Joy" THEN 1000 ELSE 700]

\* an action frame whose every bone rotation is identity and every delta is 0
ZeroAction(f) ==
    /\ \A n \in DOMAIN f.blendshapes : f.blendshapes[n] = 0
    /\ \A n \in DOMAIN f.bones : f.bones[n].rot = << 0, 0, 0, 10000 >>

\* the merged frame says what the idle frame says: the same value for every
\* blendshape name and the same rotation for every bone name (a name one of
\* them lacks counting as 0.0 / identity)
SameAsIdle(out, idle) ==
    /\ \A n \in DOMAIN out.blendshapes \cup DOMAIN idle.blendshapes :
         Get(out.blendshapes, n, 0) = Get(idle.blendshapes, n, 0)
    /\ \A n \in DOMAIN out.bones \cup DOMAIN idle.bones :
         RotOf(out.bones, n) = RotOf(idle.bones, n)

\* C10 as stated: merging any idle frame with a zero action frame yields the
\* idle frame.
C10_AnyIdleUnchanged ==
    (fn.op = "merge" /\ ZeroAction(fn.in[2])) => SameAsIdle(fn.out, fn.in[1])

\* C10 amended: merging an idle frame whose blendshape values lie in [0,1] and
\* whose bone rotations are unit quaternions with a zero action frame yields
\* the idle frame's blendshape values and bone rotations.
C10_NormalIdleUnchanged ==
    ( /\ fn.op = "merge"
      /\ ZeroAction(fn.in[2])
      /\ \A n \in DOMAIN fn.in[1].blendshapes :
            0 <= fn.in[1].blendshapes[n] /\ fn.in[1].blendshapes[n] <= 1000
      /\ \A n \in DOMAIN fn.in[1].bones :
            SumSq(fn.in[1].bones[n].rot) = 10000 * 10000 )
    => SameAsIdle(fn.out, fn.in[1])

C10_Witness ==
    /\ fn.op = "merge"
    /\ ZeroAction(fn.in[2])
    /\ DOMAIN fn.in[2].blendshapes = { "Joy", "Blink" }
    /\ DOMAIN fn.in[2].bones = { "Head", "Hips" }
    /\ fn.in[1].blendshapes = [n \in { "Joy", "Blink" } |-> 700]
    /\ DOMAIN fn.in[1].bones = { "Head" }
    /\ fn.in[1].bones["Head"].rot = << 0, 10000, 0, 0 >>
    /\ fn.out.bones["Head"].rot = << 0, 10000, 0, 0 >>
    /\ fn.out.blendshapes["Joy"] = 700

\* C11: for every non-empty absolute clip, the first frame of
\* convert_to_relative's result has every blendshape delta equal to 0 and every
\* bone rotation equal to identity.
C11_FirstFrameIsZero ==
    (fn.op = "convert_to_relative" /\ fn.in[1] # << >>) =>
        /\ Len(fn.out) = Len(fn.in[1])
        /\ \A n \in DOMAIN fn.out[1].blendshapes : fn.out[1].blendshapes[n] = 0
        /\ \A n \in DOMAIN fn.out[1].bones :
              fn.out[1].bones[n].rot = << 0, 0, 0, 10000 >>
        /\ DOMAIN fn.out[1].blendshapes = DOMAIN fn.in[1][1].blendshapes
        /\ DOMAIN fn.out[1].bones = DOMAIN fn.in[1][1].bones

C11_Witness ==
    /\ fn.op = "convert_to_relative"
    /\ Len(fn.in[1]) = 2
    /\ fn.in[1][1].blendshapes = [n \in { "Joy" } |-> 300]
    /\ fn.in[1][1].bones = [n \in { "Head" } |-> [pos |-> << 0, 0, 0 >>,
                                                  rot |-> << 0, 6000, 0, 8000 >>]]
    /\ fn.out[1].blendshapes = [n \in { "Joy" } |-> 0]
    /\ fn.out[1].bones["Head"].rot = << 0, 0, 0, 10000 >>
    /\ fn.out[2].blendshapes["Joy"] # 0

\* C12 as stated: with Apply messages arriving every 10 ms for 1 s while
\* recording, the number of frames captured is between 28 and 32.
C12_Between28And32 ==
    (recorder.recording /\ osc.arrivals = 100) =>
        (28 <= Len(recorder.frames) /\ Len(recorder.frames) <= 32)

\* C12 amended: with Apply messages arriving every 10 ms for 1 s while
\* recording, exactly 25 frames are captured: after an accepted Apply the next
\* three are inside the 1/30 s interval and the fourth is accepted.
C12_Exactly25 ==
    (recorder.recording /\ osc.arrivals = 100) => Len(recorder.frames) = 25

C12_Witness ==
    /\ recorder.recording
    /\ osc.arrivals = 100
    /\ Len(recorder.frames) = 25
    /\ recorder.frames[25].t >= 960

\* C13: for every interleaving of stop_recording with in-flight handlers, the
\* list stop_recording returned never changes after the return (no step other
\* than a new stop_recording changes it), while a Val or Pos message handled
\* after the return still updates the current-state snapshot.
C13_ReturnedListFrozen ==
    [][ /\ (osc.has_returned /\ osc'.last # "stop_recording") =>
              osc'.returned.frames = osc.returned.frames
        /\ (osc.has_returned /\ osc'.arrivals = osc.arrivals + 1 /\ osc'.last = "val") =>
              /\ osc'.msg[1] \in DOMAIN recorder'.current_blendshapes
              /\ recorder'.current_blendshapes[osc'.msg[1]] = osc'.msg[2]
        /\ (osc.has_returned /\ osc'.arrivals = osc.arrivals + 1 /\ osc'.last = "pos") =>
              /\ osc'.msg[1] \in DOMAIN recorder'.current_bones
              /\ recorder'.current_bones[osc'.msg[1]].rot = osc'.msg[2] ]_vars

\* an Apply that passed its tests before stop_recording committed its frame
\* after the return, and a Val handled after that updated the snapshot
C13_Witness ==
    /\ osc.has_returned
    /\ ~recorder.recording
    /\ Len(recorder.frames) = Len(osc.returned.frames) + 1
    /\ osc.last = "val"
    /\ recorder.current_blendshapes["Joy"] = osc.msg[2]

\* C14: a start_server call made when the listener is already running (by
\* this or by a concurrent caller, whatever the other calls in flight) creates
\* no server and no thread, leaves the recorder and its socket as they are and
\* does not raise.
C14_StartServerIdempotent ==
    [][ (recorder.server # 0 /\ osc'.ncalls = osc.ncalls + 1
                             /\ osc'.last = "start_server") =>
            /\ recorder' = recorder
            /\ osc'.sockets = osc.sockets
            /\ osc'.raised = osc.raised
            /\ osc'.api = osc.api ]_vars

\* a call found the server of a concurrent call whose thread is not started yet
C14_Witness ==
    /\ osc.last = "start_server"
    /\ recorder.server = 1
    /\ Len(osc.sockets) = 1
    /\ \E c \in RecCallers : osc.api[c].pc = "thread"
    /\ ~osc.raised

ApplyAddr == "/VMC/Ext/Blend/Apply"

\* C15: within one send_frame call the messages are: one Val for each
\* blendshape of the frame, then exactly one Apply (also for an empty
\* blendshape map), then the bone messages; send_blendshapes emits its Val
\* messages and then exactly one Apply, which is its last message.
C15_ValApplyBones ==
    wire.by \in { "send_frame", "send_blendshapes" } =>
        LET msgs == wire.msgs
            nvals == Cardinality(DOMAIN (IF wire.by = "send_frame"
                                         THEN fn.in[1].blendshapes ELSE fn.in[1]))
        IN  /\ Len(msgs) > nvals
            /\ \A i \in 1..nvals : msgs[i].addr = ValAddr
            /\ msgs[nvals + 1].addr = ApplyAddr
            /\ \A i \in (nvals + 2)..Len(msgs) : msgs[i].addr = BoneAddr
            /\ wire.by = "send_blendshapes" => Len(msgs) = nvals + 1
            /\ \A n \in DOMAIN (IF wire.by = "send_frame"
                                THEN fn.in[1].blendshapes ELSE fn.in[1]) :
                  \E i \in 1..nvals : msgs[i].name = n

\* two Val messages, the Apply, then bones
C15_Witness ==
    /\ wire.by = "send_frame"
    /\ DOMAIN fn.in[1].blendshapes = { "Joy", "Blink" }
    /\ Len(wire.msgs) >= 5
    /\ wire.msgs[3].addr = ApplyAddr
    /\ wire.msgs[4].addr = BoneAddr

IdsOf(actions) == [i \in 1..Len(actions) |-> actions[i].id]

InList(ids, id) == \E i \in 1..Len(ids) : ids[i] = id

\* a non-looping action whose last frame time has been reached
Expired(action, t) ==
    /\ action.frames # << >>
    /\ ~action.loop
    /\ t - action.start_time >= action.frames[Len(action.frames)].t

\* C17: for every interleaving of play_action calls with each other and with the
\* render threads' expiry removal: a call appends exactly its own action and
\* removes none; any other step leaves the list alone or removes expired
\* actions only, keeping the others in their order; so the list never holds an
\* action twice and its order is the insertion order.
C17_ConcurrentPlaySafe ==
    [][ LET old == IdsOf(active_actions)
            new == IdsOf(active_actions')
        IN  /\ \A i, j \in 1..Len(new) : i < j => new[i] < new[j]
            /\ IF ncalls' # ncalls
               THEN /\ ncalls' = ncalls + 1
                    /\ new = Append(old, ncalls')
                    /\ SubSeq(active_actions', 1, Len(active_actions)) = active_actions
               ELSE /\ new = SelectSeq(old, LAMBDA id : InList(new, id))
                    /\ \A i \in 1..Len(old) :
                         ~InList(new, old[i]) => Expired(active_actions[i], now) ]_vars

\* the second call is still inside _ensure_thread when a render thread removes
\* the first call's expired action; the second call's action survives
C17_Witness ==
    /\ ncalls = 2
    /\ calls[2].pc = "ensure"
    /\ \E th \in Threads : rt[th].pc = "cleanup"
    /\ Len(active_actions) = 1
    /\ active_actions[1].id = 2

\* both calls in flight at once, both actions in the list
C17_WitnessBoth ==
    /\ calls[1].pc = "ensure" /\ calls[2].pc = "ensure"
    /\ IdsOf(active_actions) = << 1, 2 >>

\* squared magnitude within 2e-6 of 1 (magnitude within 1e-6 of 1)
NearUnit(q) == Abs(SumSq(q) - QOne * QOne) <= (2 * QOne * QOne) \div 1000000

\* C18: every quaternion carried by an outbound bone message of send_frame is
\* normalized: its squared magnitude is within tolerance of 1, whether it comes
\* from the frame or from the rest pose (the built-in default included).
C18_OutboundNormalized ==
    wire.by = "send_frame" =>
        \A i \in 1..Len(wire.msgs) :
            wire.msgs[i].addr = BoneAddr => NearUnit(wire.msgs[i].rot)

\* with no rest-pose file and a frame without bones, send_frame sends the
\* built-in rest pose; LeftUpperArm goes out with squared magnitude 1.0001056
C18_DefaultRestPoseOff ==
    /\ wire.by = "send_frame"
    /\ fn.op = "send_frame"
    /\ ~rest_file.exists
    /\ fn.in[1].bones = EmptyMap
    /\ WireBone("LeftUpperArm", << 0, 0, 5736, 8192 >>)
    /\ SumSq(<< 0, 0, 5736, 8192 >>) = 100010560

\* the bone messages of the latest send that name this bone
BoneMsgsFor(name) ==
    { i \in 1..Len(wire.msgs) : wire.msgs[i].addr = BoneAddr /\ wire.msgs[i].name = name }

\* C19: a send_frame call emits exactly one bone message for every rest-pose
\* bone other than Hips, with include_bones set or not; with include_bones the
\* frame's rotation replaces the rest-pose rotation for matching names and the
\* frame's other bones get a message too, without it no frame bone is sent;
\* every bone message has position [0,0,0]; the live rest pose is the same
\* after the call as before.
C19_RestPoseBaseline ==
    (wire.by = "send_frame" /\ fn.op = "send_frame") =>
        LET frame == fn.in[1]
            include_bones == fn.in[2]
            rp == fn.in[3]
            fb == IF include_bones THEN frame.bones ELSE EmptyMap
            names == (DOMAIN rp \cup DOMAIN fb) \ { "Hips" }
        IN  /\ \A name \in DOMAIN rp \ { "Hips" } : Cardinality(BoneMsgsFor(name)) = 1
            /\ \A name \in names :
                 /\ Cardinality(BoneMsgsFor(name)) = 1
                 /\ \A i \in BoneMsgsFor(name) :
                      wire.msgs[i].rot = IF name \in DOMAIN fb THEN fb[name].rot
                                         ELSE rp[name].rot
            /\ \A i \in 1..Len(wire.msgs) :
                 wire.msgs[i].addr = BoneAddr =>
                    /\ wire.msgs[i].name \in names
                    /\ wire.msgs[i].pos = << 0, 0, 0 >>
            /\ rest_pose = rp
            /\ get_rest_pose(rest_pose, rest_file) = rp

\* the default rest pose with a frame that carries a moved Head bone and Hips,
\* sent with include_bones: four arm messages and the added Head, at position 0
C19_Witness ==
    /\ wire.by = "send_frame" /\ fn.op = "send_frame"
    /\ fn.in[2]
    /\ fn.in[3] = _DEFAULT_REST_POSE
    /\ DOMAIN fn.in[1].bones = { "Head", "Hips" }
    /\ fn.in[1].bones["Head"].pos # << 0, 0, 0 >>
    /\ WireBone("Head", QJ)
    /\ WireBone("LeftUpperArm", << 0, 0, 5736, 8192 >>)
    /\ Cardinality({ i \in 1..Len(wire.msgs) : wire.msgs[i].addr = BoneAddr }) = 5

\* the custom rest pose has Head; the frame overrides it and include_bones is set
C19_WitnessOverride ==
    /\ wire.by = "send_frame" /\ fn.op = "send_frame"
    /\ fn.in[2]
    /\ "Head" \in DOMAIN fn.in[3] /\ "Head" \in DOMAIN fn.in[1].bones
    /\ fn.in[3]["Head"].rot = QJ
    /\ fn.in[1].bones["Head"].rot = QTwice
    /\ WireBone("Head", QTwice)
    /\ rest_pose["Head"].rot = QJ

\* C20: a stop_action call empties the active-action list and leaves the idle
\* clip, the idle-active flag, the idle name and the render threads as they
\* were; afterwards, with idle active, a tick of a running render thread does
\* not leave the loop but samples the idle frame, and the thread sends the
\* frame it has sampled, with all its blendshapes.
C20_StopActionKeepsIdle ==
    [][ /\ (ncalls' # ncalls /\ stopped'.phase = "stop_action") =>
              /\ active_actions' = << >>
              /\ idle_frames' = idle_frames
              /\ idle_active' = idle_active
              /\ idle_name' = idle_name
              /\ running' = running /\ thread' = thread /\ rt' = rt
        /\ (stopped.phase = "stop_action" /\ idle_active /\ idle_frames # << >>) =>
              \A th \in Threads :
                 /\ (running /\ rt[th].pc = "tick" /\ rt'[th] # rt[th]) =>
                       /\ rt'[th].pc = "cleanup"
                       /\ rt'[th].merged =
                             _get_idle_frame(idle_frames, now - rt[th].idle_epoch).frame
                 /\ (rt[th].pc = "cleanup" /\ rt'[th] # rt[th]) =>
                       /\ rt'[th].pc = "tick"
                       /\ wire'.by = "tick"
                       /\ \A n \in DOMAIN rt[th].merged.blendshapes :
                             \E i \in 1..Len(wire'.msgs) :
                                /\ wire'.msgs[i].addr = ValAddr
                                /\ wire'.msgs[i].name = n ]_vars

\* idle smile with the nod action on top, stop_action at once: the next frame
\* is the idle's Joy 0.5 with the action's Blink zeroed, the thread is in its loop
C20_Witness ==
    /\ stopped.phase = "stop_action"
    /\ ncalls = 3
    /\ now = 0
    /\ idle_active /\ idle_name = "smile"
    /\ active_actions = << >>
    /\ running /\ thread # 0 /\ rt[thread].pc = "tick"
    /\ wire.by = "tick"
    /\ WireVal("Joy", 500)
    /\ WireVal("Blink", 0)

\* a render thread has left its loop on the break test and finished
\* _send_reset, with both layers still quiescent and nobody having called stop
ExitedQuiescent(th) ==
    /\ rt[th].pc = "clear_running"
    /\ running
    /\ ~idle_active
    /\ active_actions = << >>
    /\ \A c \in Callers : calls[c] = NoCall

\* C21: when the render loop exits because both layers are quiescent, the value
\* last applied on the host is 0.0 for every blendshape name sent since the loop
\* started, names of an idle clip replaced by a later set_idle included.
C21_NoStaleBlendshape ==
    \A th \in Threads :
        ExitedQuiescent(th) => \A n \in DOMAIN host : host[n] = 0

\* set_idle(smile), a frame with Joy 0.5 is sent, set_idle(blink), stop_idle:
\* the reset zeroes Blink only and Joy stays at 0.5 on the host
C21_StaleAfterReplace ==
    /\ \E th \in Threads : ExitedQuiescent(th)
    /\ dirty_blendshapes = {}
    /\ ncalls = 3
    /\ idle_frames # << >> /\ ClipBsNames(idle_frames) = { "Blink" }
    /\ wire.by = "reset"
    /\ WireVal("Blink", 0)
    /\ "Joy" \in DOMAIN host /\ host["Joy"] = 500

\* C22: for every interleaving of stop_action with a render tick, a call between
\* the tick's sampling section and its cleanup section included: once the
\* thread has left its loop with no layer active, the last frame sent sets to
\* 0.0 every blendshape name of the stopped actions that was sent to the host.
C22_StoppedNamesZeroed ==
    \A th \in Threads :
        (ExitedQuiescent(th) /\ stopped.phase = "stop_action") =>
            \A n \in stopped.names \cap DOMAIN host : WireVal(n, 0)

\* play_action(nod), the tick samples its first frame, stop_action, the cleanup
\* section fills in Blink 0.0, finds no layer and clears the dirty set, the frame
\* goes out with Joy 1.0, the next tick breaks and _send_reset has no name to send
C22_StoppedBetweenSections ==
    /\ \E th \in Threads : ExitedQuiescent(th)
    /\ stopped.phase = "stop_action"
    /\ ncalls = 2
    /\ idle_frames = << >>
    /\ wire.by = "tick"
    /\ WireVal("Joy", 1000)
    /\ host = Map2("Joy", 1000, "Blink", 0)

\* the idle+delta merge rule applied to a previous frame and one action frame:
\* clamp(previous + delta, 0, 1) and normalize(previous_rot * delta_rot)
RuleStep(prev, delta) ==
    [ blendshapes |->
        [ n \in DOMAIN prev.blendshapes \cup DOMAIN delta.blendshapes |->
            Clamped(Get(prev.blendshapes, n, 0) + Get(delta.blendshapes, n, 0)) ],
      bones |->
        [ n \in DOMAIN prev.bones \cup DOMAIN delta.bones |->
            [ rot |-> _quat_normalize(_quat_multiply(RotOf(prev.bones, n),
                                                     RotOf(delta.bones, n))) ] ] ]

\* the rule folded over two action frames, from the idle frame or, with no
\* idle, from an empty frame
RuleFold(idle, action_frames) ==
    RuleStep(RuleStep(IF Falsy(idle) THEN [blendshapes |-> EmptyMap, bones |-> EmptyMap]
                      ELSE idle,
                      action_frames[1]),
             action_frames[2])

\* C23: with two actions active the merged frame is the left fold of the
\* idle+delta merge rule over the sampled action frames in list order, starting
\* from the idle frame (an empty frame with no idle): every blendshape is
\* clamp(previous + delta, 0, 1) at every step and every rotation is
\* normalize(previous_rot * delta_rot); with no idle and deltas a and b the
\* value is clamp(a + b, 0, 1).
C23_LeftFoldOfRule ==
    fn.op = "merge_many" =>
        LET idle == fn.in[1]
            fold == RuleFold(idle, fn.in[2])
            a == fn.in[2][1].blendshapes["Joy"]
            b == fn.in[2][2].blendshapes["Joy"]
        IN  /\ DOMAIN fn.out.blendshapes = DOMAIN fold.blendshapes
            /\ \A n \in DOMAIN fold.blendshapes : fn.out.blendshapes[n] = fold.blendshapes[n]
            /\ DOMAIN fn.out.bones = DOMAIN fold.bones
            /\ \A n \in DOMAIN fold.bones : fn.out.bones[n].rot = fold.bones[n].rot
            /\ Falsy(idle) => fn.out.blendshapes["Joy"] = Clamped(a + b)

\* no idle, deltas -0.3 then 0.7: the first action frame is taken as it is and
\* the result is clamp(-0.3 + 0.7) = 0.4, where the fold gives
\* clamp(clamp(0 - 0.3) + 0.7) = 0.7
C23_FirstStepUnclamped ==
    /\ fn.op = "merge_many"
    /\ Falsy(fn.in[1])
    /\ fn.in[2][1].blendshapes["Joy"] = -300
    /\ fn.in[2][2].blendshapes["Joy"] = 700
    /\ fn.out.blendshapes["Joy"] = 400
    /\ RuleFold(fn.in[1], fn.in[2]).blendshapes["Joy"] = 700

\* C23 amended: with an idle frame the merged frame is the left fold of the
\* rule from the idle frame, clamped at every step; with no idle the first
\* action frame is used as it is and the second is merged onto it by the rule,
\* so the value is clamp(a + b, 0, 1).
C23_FoldFromIdleOrFirst ==
    fn.op = "merge_many" =>
        LET idle == fn.in[1]
            first == fn.in[2][1]
            second == fn.in[2][2]
            want == IF Falsy(idle) THEN RuleStep(first, second)
                    ELSE RuleFold(idle, fn.in[2])
        IN  /\ fn.out.blendshapes = want.blendshapes
            /\ DOMAIN fn.out.bones = DOMAIN want.bones
            /\ \A n \in DOMAIN want.bones : fn.out.bones[n].rot = want.bones[n].rot
            /\ Falsy(idle) =>
                 fn.out.blendshapes["Joy"] =
                    Clamped(first.blendshapes["Joy"] + second.blendshapes["Joy"])

\* idle Joy 0.5, deltas 1.5 then -0.3: clamp(clamp(0.5 + 1.5) - 0.3) = 0.7, and
\* the Head rotation is the idle's times both deltas
C23_Witness ==
    /\ fn.op = "merge_many"
    /\ ~Falsy(fn.in[1])
    /\ fn.in[1].blendshapes["Joy"] = 500
    /\ fn.in[2][1].blendshapes["Joy"] = 1500
    /\ fn.in[2][2].blendshapes["Joy"] = -300
    /\ fn.out.blendshapes["Joy"] = 700
    /\ fn.in[2][1].bones = Map1("Head", Bone(QJ))
    /\ fn.in[2][2].bones = Map1("Head", Bone(QTwice))
    /\ fn.out.bones["Head"].rot =
          _quat_normalize(_quat_multiply(_quat_multiply(QK, QJ), QTwice))

\* what the sampling of one tick did to the action with this id
KeptAs(out, id) ==
    SelectSeq(out.actions, LAMBDA a : a.id = id)

ContributedBy(out, id) ==
    { i \in 1..Len(out.refs) : out.refs[i][1] = id }

\* index of the last frame at or before e, 0 when every frame is later
LastAtOrBefore(frames, e) ==
    IF \E i \in 1..Len(frames) : frames[i].t <= e
    THEN CHOOSE i \in 1..Len(frames) :
            /\ frames[i].t <= e
            /\ \A j \in 1..Len(frames) : frames[j].t <= e => j <= i
    ELSE 0

\* the lifecycle of one action a in a tick at time t, given the frame index
\* `below` it must contribute while running and `restart` when a loop restarts
Lifecycle(out, a, t, below, restart) ==
    LET e == t - a.start_time
        D == a.frames[Len(a.frames)].t
        refs == ContributedBy(out, a.id)
    IN  IF e < D
        THEN /\ KeptAs(out, a.id) = << a >>
             /\ Cardinality(refs) = 1
             /\ \A i \in refs : out.refs[i][2] = below /\ out.frames[i] = a.frames[below]
        ELSE IF a.loop
        THEN /\ KeptAs(out, a.id) = << [a EXCEPT !.start_time = t] >>
             /\ Cardinality(refs) = 1
             /\ \A i \in refs : out.refs[i][2] = restart /\ out.frames[i] = a.frames[restart]
        ELSE /\ KeptAs(out, a.id) = << >>
             /\ refs = {}

\* C24: in a tick, an action whose elapsed time is below its duration contributes
\* the nearest frame at or before the elapsed time and stays; a non-looping
\* action that has reached its duration contributes nothing and is removed; a
\* looping one has its start time reset, contributes its frame for elapsed 0
\* and stays.
C24_FrameAtOrBefore ==
    fn.op = "_get_active_action_frames" =>
        \A k \in 1..Len(fn.in[1]) :
            LET a == fn.in[1][k]
            IN  a.frames # << >> =>
                   /\ Lifecycle(fn.out, a, fn.in[2],
                                LastAtOrBefore(a.frames, fn.in[2] - a.start_time),
                                LastAtOrBefore(a.frames, 0))
                   /\ (fn.in[2] - a.start_time < a.frames[Len(a.frames)].t) =>
                         LastAtOrBefore(a.frames, fn.in[2] - a.start_time) # 0

\* C24 amended: the contributed frame is the last one at or before the elapsed
\* time, or the clip's first frame when every frame is later.
C24_FrameAtOrBeforeOrFirst ==
    fn.op = "_get_active_action_frames" =>
        \A k \in 1..Len(fn.in[1]) :
            LET a == fn.in[1][k]
                First(i) == IF i = 0 THEN 1 ELSE i
            IN  a.frames # << >> =>
                   Lifecycle(fn.out, a, fn.in[2],
                             First(LastAtOrBefore(a.frames, fn.in[2] - a.start_time)),
                             First(LastAtOrBefore(a.frames, 0)))

\* at 100 ms: the non-looping nod (duration 100) is removed without a frame,
\* the looping sorrow clip (duration 200) contributes its first frame and stays
C24_Witness ==
    /\ fn.op = "_get_active_action_frames"
    /\ fn.in[2] = 100
    /\ Len(fn.in[1]) = 2
    /\ fn.in[1][1].frames = ActNod /\ ~fn.in[1][1].loop
    /\ fn.in[1][2].frames = ActSorrow /\ fn.in[1][2].loop
    /\ Len(fn.out.actions) = 1 /\ fn.out.actions[1].id = 2
    /\ fn.out.frames = << ActSorrow[1] >>

\* a looping nod restarts at 150 ms; the recorded clip at 5 ms contributes its
\* first frame, which is at 12 ms
C24_WitnessLoop ==
    /\ fn.op = "_get_active_action_frames"
    /\ fn.in[2] = 150
    /\ Len(fn.in[1]) = 1
    /\ fn.in[1][1].frames = ActNod /\ fn.in[1][1].loop
    /\ fn.out.actions[1].start_time = 150
    /\ fn.out.frames = << ActNod[1] >>

\* C25: with idle inactive and non-looping actions only (clips with zero frames
\* or a single frame included), once no further call is made and the render
\* thread is scheduled fairly, the active-action list becomes empty for good,
\* every render thread has exited and is_playing is false.
C25_PlaybackTerminates ==
    <>[](/\ active_actions = << >>
         /\ ~is_playing
         /\ \A th \in Threads : Dead(th))

\* play_action([]) alone: the clock is at its end, the render thread is in its
\* loop with nothing to send, and the action with no frames is still listed
C25_EmptyClipStays ==
    /\ now = MaxSteps * 100
    /\ ncalls = 1
    /\ Len(active_actions) = 1
    /\ active_actions[1].frames = << >>
    /\ active_actions[1].start_time = 0
    /\ running /\ thread # 0 /\ rt[thread].pc = "tick"
    /\ wire = NoWire


\* C26: in every frame list of a recording (the list being filled and the
\* list stop_recording returned) the timestamps t are non-negative and do not
\* decrease in list order, whatever the interleaving of the Apply handlers with
\* each other and with stop_recording and start_recording.
TimesOrdered(frames) ==
    \A i \in 1..Len(frames) :
        /\ frames[i].t >= 0
        /\ i > 1 => frames[i - 1].t <= frames[i].t

C26_TimestampsOrdered ==
    /\ TimesOrdered(recorder.frames)
    /\ TimesOrdered(osc.returned.frames)

\* a later frame carries an earlier time: its handler read the clock first and
\* took the lock second
C26_OutOfOrder ==
    /\ Len(recorder.frames) = 2
    /\ recorder.frames[2].t < recorder.frames[1].t

\* C27: within one recording any two committed frames were sampled at least
\* one sample interval (1/30 s) apart, also when Apply handlers run on
\* concurrent threads: two Apply messages handled inside the same interval
\* never both append a frame.
C27_FramesSpaced ==
    \A i, j \in 1..Len(recorder.frames) :
        i < j => ~RateCapped(recorder.frames[j].t, recorder.frames[i].t)

\* two frames of the same instant
C27_TwoInOneInterval ==
    /\ Len(recorder.frames) = 2
    /\ recorder.frames[1].t = recorder.frames[2].t

\* C28: stop_recording returns the accumulated frames and clears the frame
\* list: while the recorder is not recording it holds no frames (frame_count
\* is 0), so that a second stop_recording returns an empty list.
C28_StopClearsFrames ==
    ~recorder.recording => frame_count = 0

\* a step that is a call of stop_recording
StopStep == osc'.last = "stop_recording" /\ osc'.ncalls = osc.ncalls + 1

\* C28, amended: stop_recording returns the accumulated frames and leaves the
\* frame list as it is: frame_count keeps its value across the call and every
\* call of stop_recording returns the frames held at that moment; the list
\* gets shorter only in start_recording.
C28_StopKeepsFrames ==
    [][/\ StopStep => /\ osc'.returned.frames = recorder.frames
                      /\ recorder'.frames = recorder.frames
                      /\ ~recorder'.recording
       /\ Len(recorder'.frames) < Len(recorder.frames)
             => osc'.last = "start_recording"]_vars

\* stop_recording has returned a frame and the recorder still holds it
C28_Witness ==
    /\ osc.last = "stop_recording"
    /\ ~recorder.recording
    /\ frame_count = 1
    /\ osc.returned.frames = recorder.frames

\* steps of the recorder: a Val or Pos message handled, the entry of an Apply
\* handler, the commit of an Apply handler
ValStep == osc'.last = "val" /\ osc'.arrivals = osc.arrivals + 1
PosStep == osc'.last = "pos" /\ osc'.arrivals = osc.arrivals + 1
ApplyStep == osc'.last = "apply" /\ osc'.arrivals = osc.arrivals + 1
CommitStep == osc'.last = "commit"

\* C29: a Val or Pos message updates the current-state snapshot on every
\* arrival (recording or not, whatever happened to the Apply messages before
\* it); the frame committed by an accepted Apply holds the snapshot of that
\* moment, the latest value of every name; an Apply received while not
\* recording commits nothing; and the frames already committed are not changed
\* by a later Val or Pos message.
C29_SnapshotAndCommit ==
    [][/\ ValStep =>
            /\ recorder'.current_blendshapes =
                  Update(recorder.current_blendshapes, Map1(osc'.msg[1], osc'.msg[2]))
            /\ recorder'.current_blendshapes[osc'.msg[1]] = osc'.msg[2]
            /\ recorder'.frames = recorder.frames
       /\ PosStep =>
            /\ recorder'.current_bones =
                  Update(recorder.current_bones, Map1(osc'.msg[1], Bone(osc'.msg[2])))
            /\ recorder'.current_bones[osc'.msg[1]].rot = osc'.msg[2]
            /\ recorder'.frames = recorder.frames
       /\ CommitStep =>
            /\ Len(recorder'.frames) = Len(recorder.frames) + 1
            /\ SubSeq(recorder'.frames, 1, Len(recorder.frames)) = recorder.frames
            /\ recorder'.frames[Len(recorder'.frames)].blendshapes
                  = recorder.current_blendshapes
            /\ recorder'.frames[Len(recorder'.frames)].bones = recorder.current_bones
       /\ (ApplyStep /\ ~recorder.recording) =>
            /\ recorder' = recorder
            /\ osc'.h = osc.h]_vars

\* a frame was committed with Joy at 0.3 and a Val that arrived afterwards has
\* set the snapshot to 0.9
C29_Witness ==
    /\ osc.last = "val"
    /\ Len(recorder.frames) = 1
    /\ recorder.frames[1].blendshapes = Map1("Joy", 300)
    /\ recorder.current_blendshapes = Map1("Joy", 900)

\* a Val handled while the recorder is not recording
C29_WitnessIdle ==
    /\ osc.last = "val"
    /\ ~recorder.recording
    /\ recorder.frames = << >>
    /\ recorder.current_blendshapes = Map1("Joy", 900)

\* blendshape values in [0,1] and unit rotations
UnitFrame(f) ==
    /\ \A n \in DOMAIN f.blendshapes : f.blendshapes[n] \in 0..One
    /\ \A n \in DOMAIN f.bones : SumSq(f.bones[n].rot) = QOne * QOne

UnitClip(frames) == \A i \in 1..Len(frames) : UnitFrame(frames[i])

\* the same rotation, up to the rounding of the last digit
SameRot(a, b) == \A i \in 1..4 : Abs(a[i] - b[i]) <= 1

\* the same pose: the value of every blendshape (0 where absent) and the
\* rotation of every bone (identity where absent)
SamePose(a, b) ==
    /\ \A n \in DOMAIN a.blendshapes \cup DOMAIN b.blendshapes :
          Get(a.blendshapes, n, 0) = Get(b.blendshapes, n, 0)
    /\ \A n \in DOMAIN a.bones \cup DOMAIN b.bones :
          SameRot(RotOf(a.bones, n), RotOf(b.bones, n))

\* C30: for an absolute clip with blendshape values in [0,1] and unit
\* rotations, merging the clip's first frame (as idle) with frame k of
\* convert_to_relative(clip) (as action) gives back frame k of the clip, in
\* every blendshape value and every bone rotation; the converted clip has the
\* same number of frames and the same t in every frame.
C30_RelativeRoundTrip ==
    (fn.op = "round_trip" /\ UnitClip(fn.in[1])) =>
        LET frames == fn.in[1]
            k == fn.in[2]
        IN  /\ SamePose(fn.out.merged, frames[k])
            /\ Len(fn.out.relative) = Len(frames)
            /\ \A i \in 1..Len(frames) : fn.out.relative[i].t = frames[i].t

\* the second frame of a clip comes back: its values and its rotation differ
\* from the first frame's, and the reference rotation is off the axes
C30_Witness ==
    /\ fn.op = "round_trip"
    /\ fn.in[2] = 2
    /\ UnitClip(fn.in[1])
    /\ fn.in[1][1].blendshapes = Map2("Joy", 300, "Blink", 1000)
    /\ fn.in[1][2].blendshapes = Map2("Joy", 1000, "Blink", 0)
    /\ fn.in[1][1].bones = Map1("Head", Bone(QTilt))
    /\ fn.in[1][2].bones = Map1("Head", Bone(QJ))
    /\ fn.out.merged.bones["Head"].rot = QJ
    /\ fn.out.merged.blendshapes = fn.in[1][2].blendshapes

\* C31: for a non-empty clip sorted by t and any target time, _find_frame
\* returns the last frame in list order whose t is at or before the target
\* (among frames of equal t the last one), and the first frame when no frame
\* has its t at or before the target.
C31_LastAtOrBeforeTarget ==
    fn.op = "_find_frame" =>
        LET frames == fn.in[1]
            i == LastAtOrBefore(frames, fn.in[2])
        IN  fn.out = (IF i = 0 THEN frames[1] ELSE frames[i])

\* three frames at 0, 10, 10 sampled at 15: the third frame, not the second
C31_Witness ==
    /\ fn.op = "_find_frame"
    /\ Len(fn.in[1]) = 3
    /\ fn.in[1][2].t = 10 /\ fn.in[1][3].t = 10
    /\ fn.in[2] = 15
    /\ fn.out = fn.in[1][3]

\* every frame is later than the target: the first frame
C31_WitnessFirst ==
    /\ fn.op = "_find_frame"
    /\ fn.in[1][1].t = 10
    /\ fn.in[2] = 5
    /\ fn.out = fn.in[1][1]

\* a call of load_preset or delete_preset with a name that has no file
MissingCall(op) ==
    /\ fn = NoFn
    /\ fn'.op = op
    /\ ~PresetExists(fn'.in[1])

\* C32: load_preset and delete_preset called with a name that has no preset
\* file both raise the preset-not-found error, and the store is unchanged by
\* the failed call.
C32_BothRaise ==
    [][(MissingCall("load_preset") \/ MissingCall("delete_preset")) =>
          /\ fn'.out.raised = "FileNotFoundError"
          /\ presets' = presets]_vars

\* C32, amended: with a name that has no preset file load_preset raises the
\* preset-not-found error and delete_preset returns False without raising;
\* the store is unchanged by either call.
C32_LoadRaisesDeleteFalse ==
    [][/\ MissingCall("load_preset") =>
            /\ fn'.out.raised = "FileNotFoundError"
            /\ presets' = presets
       /\ MissingCall("delete_preset") =>
            /\ fn'.out.raised = "none"
            /\ fn'.out.value = FALSE
            /\ presets' = presets]_vars

\* delete_preset("nod") has returned False while "smile" is stored
C32_Witness ==
    /\ fn.op = "delete_preset"
    /\ fn.in = << "nod" >>
    /\ fn.out = Returned(FALSE)
    /\ DOMAIN presets.files = { "smile" }

\* load_preset("nod") has raised while "smile" is stored
C32_WitnessLoad ==
    /\ fn.op = "load_preset"
    /\ fn.in = << "nod" >>
    /\ fn.out.raised = "FileNotFoundError"
    /\ DOMAIN presets.files = { "smile" }

\* C33: in every reachable state every blendshape name and every bone name
\* that occurs in a frame of an action of the active list is a member of the
\* corresponding dirty-name set, whatever the interleaving of play_action with
\* the render thread and its exit path.
C33_DirtyCoversActive ==
    \A i \in 1..Len(active_actions) :
        /\ ClipBsNames(active_actions[i].frames) \subseteq dirty_blendshapes
        /\ ClipBoneNames(active_actions[i].frames) \subseteq dirty_bones

\* an action is in the list, the exiting thread has emptied both dirty sets
C33_ClearedUnderAction ==
    /\ active_actions # << >>
    /\ ClipBsNames(active_actions[1].frames) # {}
    /\ dirty_blendshapes = {}
    /\ \E th \in Threads : rt[th].pc = "clear_running"

\* render threads that are alive
Alive == { th \in Threads : ~Dead(th) }

\* C34: at most one render thread is alive at any time, for every
\* interleaving of concurrent API calls with each other and with a render
\* thread that is exiting, so that the emitted frames come from a single loop.
C34_OneRenderThread == Cardinality(Alive) <= 1

\* two render loops are running and both are at the top of their loop
C34_TwoLoops ==
    /\ \A th \in Threads : rt[th].pc = "tick"
    /\ Len(active_actions) = 2

\* C35: rendering does not modify the stored clips: after any number of render
\* ticks the frames of the idle clip and of every active action are what was
\* passed to set_idle / play_action (one of the clips the callers pass); the
\* dirty-name cleanup writes to the emitted frame only.
C35_StoredClipsIntact ==
    /\ idle_frames \in IdleClips \cup { << >> }
    /\ \A i \in 1..Len(active_actions) : active_actions[i].frames \in ActionClips

\* the stored idle pose has gained a zeroed blendshape of an earlier action
C35_IdleClipWritten ==
    /\ Len(idle_frames) = 1
    /\ idle_frames[1].t = IdleSmile[1].t
    /\ idle_frames[1].bones = IdleSmile[1].bones
    /\ DOMAIN idle_frames[1].blendshapes # DOMAIN IdleSmile[1].blendshapes
    /\ \A n \in DOMAIN idle_frames[1].blendshapes \ DOMAIN IdleSmile[1].blendshapes :
          idle_frames[1].blendshapes[n] = 0

\* C36: in every state reachable by set_idle, stop_idle, play_action,
\* stop_action and stop, whenever idle is inactive the reported idle name is
\* the empty string.
C36_NoNameWhenInactive == ~idle_active => idle_name = ""

\* stop() has returned and the name of the stopped idle clip is still reported
C36_NameAfterStop ==
    /\ ~idle_active
    /\ idle_name = "smile"
    /\ stopped.phase = "returned"

\* C37: a single-frame (zero-duration) clip is a static pose in both layers;
\* for the action layer: a single-frame clip passed to play_action as a
\* non-looping action contributes its frame to at least one emitted frame
\* before it is removed.  Here for the pose played alone: when it leaves the
\* list, its value of Joy has been applied on the host.
C37_PoseActionEmitted ==
    [][(/\ ncalls = 1
        /\ Len(active_actions) = 1
        /\ active_actions[1].frames = ActPose
        /\ ~active_actions[1].loop
        /\ active_actions' = << >>)
          => /\ "Joy" \in DOMAIN host
             /\ host["Joy"] = ActPose[1].blendshapes["Joy"]]_vars

\* the pose was played alone, the thread has ended, and all the host ever
\* received is the reset's Joy = 0
C37_PoseNeverShown ==
    /\ ncalls = 1
    /\ active_actions = << >>
    /\ thread # 0 /\ rt[thread].pc = "dead"
    /\ host = Map1("Joy", 0)

=============================================================================
